---- MODULE Spec2Model ----
(***************************************************************************)
(* A model of easy-mcp-gateway: the sanitization pipeline, the downstream  *)
(* connection manager with its liveness loop, and the tool registry with   *)
(* its proxy handlers.                                                     *)
(*                                                                         *)
(* Strings that the code inspects character by character (server and tool  *)
(* names) are sequences of one-character strings; strings that the code    *)
(* only copies, compares or concatenates (threats, errors, the content the *)
(* stub scanners see) are TLA+ strings.  The content the built-in scanners *)
(* see is a sequence of runes, where one element stands for a rune or for  *)
(* a whole phrase that one of the scanners' patterns matches.              *)
(***************************************************************************)
EXTENDS Integers, Sequences, FiniteSets, TLC

(***************************************************************************)
(* Bounds of the model.                                                    *)
(***************************************************************************)
MaxStages == 2
MaxItems == 2
MaxTextLen == 2

(***************************************************************************)
(* Go's nil: for errors, for pointers to plain values, and for a           *)
(* *mcp.CallToolResult.                                                    *)
(***************************************************************************)
NoErr == "nil"
Nil == "nil"
NilResult == [nil |-> TRUE]

\* A pointer (*int, *bool, *SanitizationConfig): nil, or the value pointed to.
NilPtr == <<>>
Ptr(v) == <<v>>

VARIABLES
  \* the sanitization pipeline
  pipeline,     \* the *sanitizer.Pipeline under call
  plInput,      \* the content handed to Pipeline.Process
  plOut,        \* what Pipeline.Process returned
  plCalls,      \* the calls of Process running concurrently on pipeline:
                \* each call's position and local variables
  plPc,         \* "call" before Pipeline.Process is called, "done" after
  \* configuration and environment
  upstream,     \* cfg.Upstream
  downstream,   \* cfg.Downstream, the configured DownstreamConfigs
  catalog,      \* the tools each downstream server advertises
  reachable,    \* whether each downstream server accepts connections
  \* Gateway.Run / NewDownstreamManager
  mainPc,       \* "load", "new", "ready", "failed", "cfgerr", and what
                \* Gateway.Run does after discovery: "serving", "regerr",
                \* and "returned"
  newIdx,       \* position of NewDownstreamManager's loop over downstream
  newAttempts,  \* history: the connects made by NewDownstreamManager
  \* DownstreamManager
  conns,        \* dm.conns
  sess,         \* every ClientSession that connect has produced
  cancelled,    \* the liveness loop's context has been cancelled
  closePc,      \* "idle", or "cancelled" between Close's cancel and its Lock
  closeReturned,\* history: some call of Close has returned
  \* a call of DownstreamManager.Conns
  connsPc,      \* "idle", "copy" while Conns holds the read lock, "returned"
  connsTodo,    \* keys the range over dm.conns has still to visit
  connsOut,     \* out, the map Conns builds and returns
  \* healthCheckLoop / checkAndReconnect
  hcPc,         \* "none", "wait", "iter", "ping", "connect", "install",
                \* "delete", "exited"
  hcTodo,       \* names the current check has still to visit
  hcName,       \* the name under check
  hcConn,       \* the conn read from the map for hcName
  hcNew,        \* the conn the reconnect produced
  \* Registry
  regPc,        \* "idle", "iter", "done", "failed"
  regSnap,      \* the snapshot DiscoverAndRegister took with Conns()
  regTodo,      \* names of the snapshot not yet registered
  regTotal,     \* total
  registered,   \* history: every call of upstream.Server.AddTool
  advertised,   \* history: the tools each server listed at discovery
  upstreamTools,\* the upstream server's tools, by name
  swapped,      \* history: the session the latest reconnect since discovery
                \* installed for a name
  \* a proxy call
  pxPc,         \* "idle", "forward", "await", "sanitize"
  pxReq,        \* the *mcp.CallToolRequest the handler was called with
  pxCalls,      \* the CallTool requests in flight to downstream sessions
  pxHandler,    \* the handler closure running
  pxSession,    \* session := dm.Session(serverName)
  sessRet,      \* history: what the latest dm.Session call returned
  pxResult,     \* the CallToolResult the downstream returned to the proxy
  pxRet,        \* what the proxy handler returned last
  \* the environment
  envEvents,    \* the number of environment events so far
  \* the sanitization configuration
  globalCfg,    \* Registry.globalCfg
  merged,       \* history: what config.Merge returned for the server
  sanPc         \* "idle", "start", "built", "failed", "done"

plVars == <<plInput, plOut, plPc, plCalls>>
cfgVars == <<upstream, downstream, catalog>>
mainVars == <<mainPc, newIdx, newAttempts>>
closeVars == <<closePc, closeReturned>>
connsVars == <<connsPc, connsTodo, connsOut>>
hcVars == <<hcPc, hcTodo, hcName, hcConn, hcNew>>
regVars == <<regPc, regSnap, regTodo, regTotal, registered, advertised,
             upstreamTools>>
pxVars == <<pxPc, pxReq, pxCalls, pxHandler, pxSession, sessRet, pxResult,
           pxRet>>
sanVars == <<globalCfg, merged, sanPc>>
fixedVars == <<pipeline, plVars, envEvents, cfgVars, sanVars, connsVars>>
dmVars == <<envEvents, cfgVars, reachable, mainVars, conns, sess, cancelled,
            closeVars, connsVars, hcVars, regVars, swapped>>
gwVars == <<dmVars, sanVars>>
vars == <<pipeline, plVars, gwVars, pxVars>>

(***************************************************************************)
(* sanitizer.Verdict and the result types.                                 *)
(***************************************************************************)
VerdictPass == 0
VerdictModify == 1
VerdictBlock == 2

EmptyPipelineResult ==
  [FinalVerdict |-> VerdictPass, FinalContent |-> "",
   AllThreats |-> <<>>, ScanResults |-> <<>>]

(***************************************************************************)
(* The built-in scanners.  The runes and phrases of the model's content:   *)
(* a plain rune, a zero-width rune (category Cf), a full-width rune that   *)
(* NFKC turns into the plain one, and one phrase for each kind of pattern. *)
(***************************************************************************)
PlainRune == "x"
ZeroWidthRune == "zw"
FullWidthRune == "fw"

\* fmt's %q of a string without characters to escape.
Quoted(str) == "\"" \o str \o "\""

\* norm.NFKC.String
RECURSIVE NFKC(_)
NFKC(content) ==
  IF content = <<>> THEN <<>>
  ELSE <<IF Head(content) = FullWidthRune THEN PlainRune ELSE Head(content)>>
       \o NFKC(Tail(content))

shouldRemove(r) == r = ZeroWidthRune

\* UnicodeScanner.Scan
UnicodeScan(content) ==
  LET normalized == NFKC(content)
      cleaned == SelectSeq(normalized, LAMBDA r : ~shouldRemove(r))
      removed == Len(normalized) - Len(cleaned)
  IN IF removed = 0 /\ cleaned = content
     THEN [Verdict |-> VerdictPass, Content |-> content, Threats |-> <<>>,
           ScannerName |-> "unicode"]
     ELSE [Verdict |-> VerdictModify, Content |-> cleaned,
           Threats |-> IF removed > 0
                       THEN <<"invisible/control characters removed">>
                       ELSE <<>>,
           ScannerName |-> "unicode"]

\* LengthScanner: the test len([]rune(content)) <= s.MaxChars, with the
\* mutant that truncates content of exactly MaxChars runes.
WithinLimitStrict(n, maxChars) == n < maxChars

WithinLimit(n, maxChars) == n <= maxChars

NewLengthScanner(maxChars) == [name |-> "length", MaxChars |-> maxChars]

\* The bytes of a rune in UTF-8: the plain rune is ASCII, the others take
\* three bytes.
RuneBytes(r) == IF r = PlainRune THEN 1 ELSE 3

RECURSIVE ByteLen(_)
ByteLen(content) ==
  IF content = <<>> THEN 0 ELSE RuneBytes(Head(content)) + ByteLen(Tail(content))

\* len([]rune(content)), with the mutant len(content) that counts bytes.
RuneCountInBytes(content) == ByteLen(content)

RuneCount(content) == Len(content)

\* The marker "\n[truncated]" is the newline and one element for the word.
LengthScan(s, content) ==
  IF WithinLimit(RuneCount(content), s.MaxChars)
  THEN [Verdict |-> VerdictPass, Content |-> content, Threats |-> <<>>,
        ScannerName |-> "length"]
  ELSE [Verdict |-> VerdictModify,
        Content |-> SubSeq(content, 1, s.MaxChars) \o <<"\n", "[truncated]">>,
        Threats |-> <<"response exceeded character limit">>,
        ScannerName |-> "length"]

\* A pattern is named by the phrase it matches; re.FindString(content) finds
\* a match when the phrase occurs in the content.
Matches(pattern, content) == \E i \in 1..Len(content) : content[i] = pattern

\* The index of the first pattern that matches, 0 when none does.
FirstMatch(patterns, content) ==
  IF \E i \in 1..Len(patterns) : Matches(patterns[i], content)
  THEN CHOOSE i \in 1..Len(patterns) :
         /\ Matches(patterns[i], content)
         /\ \A j \in 1..(i - 1) : ~Matches(patterns[j], content)
  ELSE 0

builtInInjectionPatterns == <<"[INST]">>

\* A custom pattern that regexp.Compile rejects.
InvalidPattern == "[unclosed"

\* NewInjectionScanner: the first pattern that does not compile fails it.
NewInjectionScanner(disableBuiltIn, customPatterns) ==
  LET sources == (IF disableBuiltIn THEN <<>> ELSE builtInInjectionPatterns)
                   \o customPatterns
  IN IF \E i \in 1..Len(sources) : sources[i] = InvalidPattern
     THEN [scanner |-> [name |-> "injection", patterns |-> <<>>],
           err |-> "compiling injection pattern"]
     ELSE [scanner |-> [name |-> "injection", patterns |-> sources],
           err |-> NoErr]

\* InjectionScanner.Scan; a compiled pattern prints with its (?i) flag.
InjectionScan(s, content) ==
  LET i == FirstMatch(s.patterns, content)
  IN IF i # 0
     THEN [Verdict |-> VerdictBlock, Content |-> content,
           Threats |-> <<"prompt injection detected: matched pattern "
                           \o Quoted("(?i)" \o s.patterns[i])>>,
           ScannerName |-> "injection"]
     ELSE [Verdict |-> VerdictPass, Content |-> content, Threats |-> <<>>,
           ScannerName |-> "injection"]

overridePatterns == <<"pretend to be">>

\* OverrideScanner.Scan
OverrideScan(content) ==
  LET i == FirstMatch(overridePatterns, content)
  IN IF i # 0
     THEN [Verdict |-> VerdictBlock, Content |-> content,
           Threats |-> <<"system prompt override detected: matched "
                           \o Quoted("(?i)" \o overridePatterns[i])>>,
           ScannerName |-> "override"]
     ELSE [Verdict |-> VerdictPass, Content |-> content, Threats |-> <<>>,
           ScannerName |-> "override"]

\* What dangerousSchemes matches, and a URL that urlExtractor extracts and
\* exfilPatterns matches.
DangerousScheme == "javascript:"
ExfilURL == "http://h/?token=1"

\* URLScanner.Scan
URLScan(content) ==
  LET scheme == IF Matches(DangerousScheme, content)
                THEN <<"dangerous URI scheme detected: "
                         \o Quoted(DangerousScheme)>>
                ELSE <<>>
      urls == SelectSeq(content, LAMBDA r : r = ExfilURL)
      exfil == [i \in 1..Len(urls) |->
                  "possible data exfiltration URL: " \o Quoted(urls[i])]
      threats == scheme \o exfil
  IN IF Len(threats) > 0
     THEN [Verdict |-> VerdictBlock, Content |-> content,
           Threats |-> threats, ScannerName |-> "url"]
     ELSE [Verdict |-> VerdictPass, Content |-> content, Threats |-> <<>>,
           ScannerName |-> "url"]

NewBoundaryScanner(source) == [name |-> "boundary", Source |-> source]

\* The envelope of BoundaryScanner.Scan: the opening tag, a newline, the
\* content, a newline, the closing tag; with the mutant that leaves the
\* newlines out.
WrappedInline(source, content) ==
  <<"<external_tool_response source=" \o Quoted(source) \o ">">>
    \o content \o <<"</external_tool_response>">>

Wrapped(source, content) ==
  <<"<external_tool_response source=" \o Quoted(source) \o ">", "\n">>
    \o content \o <<"\n", "</external_tool_response>">>

\* BoundaryScanner.Scan
BoundaryScan(s, content) ==
  [Verdict |-> VerdictModify, Content |-> Wrapped(s.Source, content),
   Threats |-> <<>>, ScannerName |-> "boundary"]

BuiltInScanners ==
  {"unicode", "length", "injection", "override", "url", "boundary"}

(***************************************************************************)
(* A Scanner is any implementation of Scan(content) -> (ScanResult, error).*)
(* Besides the built-in ones the model has the test suite's stubScanner    *)
(* with a trigger added: a scanner with when = AnyContent answers its      *)
(* result for every input, one with when = c answers it for the input c    *)
(* only and passes every other input, as the pattern scanners do.  A       *)
(* result whose Content is "" hands back the content it was given.         *)
(***************************************************************************)
AnyContent == "*"

stubScan(s, content) ==
  IF s.when # AnyContent /\ s.when # content
  THEN [res |-> [Verdict |-> VerdictPass, Content |-> content,
                 Threats |-> <<>>, ScannerName |-> s.name],
        err |-> NoErr]
  ELSE IF s.err # NoErr
  THEN [res |-> [Verdict |-> VerdictPass, Content |-> "",
                 Threats |-> <<>>, ScannerName |-> ""],
        err |-> s.err]
  ELSE [res |-> [Verdict |-> s.result.Verdict,
                 Content |-> IF s.result.Content = "" THEN content
                             ELSE s.result.Content,
                 Threats |-> s.result.Threats,
                 ScannerName |-> s.name],
        err |-> NoErr]

\* s.Scan(ctx, current) on the Scanner interface.
Scan(s, content) ==
  IF s.name \notin BuiltInScanners THEN stubScan(s, content)
  ELSE [res |-> IF s.name = "unicode" THEN UnicodeScan(content)
                ELSE IF s.name = "length" THEN LengthScan(s, content)
                ELSE IF s.name = "injection" THEN InjectionScan(s, content)
                ELSE IF s.name = "override" THEN OverrideScan(content)
                ELSE IF s.name = "url" THEN URLScan(content)
                ELSE BoundaryScan(s, content),
        err |-> NoErr]

NewPipeline(scanners) == [scanners |-> scanners]

(***************************************************************************)
(* Pipeline.Process.  ProcessLoop is the for loop, entered at scanner i    *)
(* with the threaded content and the result built so far; calls records    *)
(* every invocation of Scan (the stage and the content it was given).      *)
(***************************************************************************)
RECURSIVE ProcessLoop(_, _, _, _, _)

\* case VerdictBlock, with the mutant that keeps running the later stages.
OnBlockContinue(scanners, i, current, r1, sr, calls) ==
  ProcessLoop(scanners, i + 1, current,
              [r1 EXCEPT !.FinalVerdict = VerdictBlock,
                         !.FinalContent = sr.Content],
              calls)

OnBlock(scanners, i, current, r1, sr, calls) ==
  [result |-> [r1 EXCEPT !.FinalVerdict = VerdictBlock,
                         !.FinalContent = sr.Content],
   err |-> NoErr, calls |-> calls]

\* if err != nil { return result, err }, with the mutant that wraps the
\* error.
OnScanErrorWrapped(result, err, calls) ==
  [result |-> result, err |-> "scan: " \o err, calls |-> calls]

OnScanError(result, err, calls) ==
  [result |-> result, err |-> err, calls |-> calls]

\* result.AllThreats = append(result.AllThreats, sr.Threats...), with the
\* mutant that keeps the latest stage's threats only.
AppendThreatsLatestOnly(allThreats, sr) == sr.Threats

AppendThreats(allThreats, sr) == allThreats \o sr.Threats

\* case VerdictModify: current = sr.Content, with the mutant that keeps
\* threading the old content.
ThreadedStale(current, sr) == current

Threaded(current, sr) == sr.Content

\* case VerdictModify: the verdict after a modifying stage, with the mutant
\* that forgets the upgrade.
OnModifyVerdictKept(finalVerdict) == finalVerdict

OnModifyVerdict(finalVerdict) ==
  IF finalVerdict # VerdictBlock THEN VerdictModify ELSE finalVerdict

ProcessLoop(scanners, i, current, result, calls) ==
  IF i > Len(scanners)
  THEN [result |-> [result EXCEPT !.FinalContent = current],
        err |-> NoErr, calls |-> calls]
  ELSE
    LET out == Scan(scanners[i], current)
        calls2 == Append(calls, [stage |-> i, input |-> current])
    IN
    IF out.err # NoErr
    THEN OnScanError(result, out.err, calls2)
    ELSE
      LET sr == out.res
          r1 == [result EXCEPT !.ScanResults = Append(@, sr),
                               !.AllThreats = AppendThreats(@, sr)]
      IN
      IF sr.Verdict = VerdictBlock
      THEN OnBlock(scanners, i, current, r1, sr, calls2)
      ELSE IF sr.Verdict = VerdictModify
      THEN ProcessLoop(scanners, i + 1, Threaded(current, sr),
                       [r1 EXCEPT !.FinalVerdict = OnModifyVerdict(@)],
                       calls2)
      ELSE ProcessLoop(scanners, i + 1, current, r1, calls2)

Process(p, content) ==
  ProcessLoop(p.scanners, 1, content, EmptyPipelineResult, <<>>)

(***************************************************************************)
(* strings.Join.                                                           *)
(***************************************************************************)
RECURSIVE Join(_, _)
Join(elems, sep) ==
  IF elems = <<>> THEN ""
  ELSE IF Len(elems) = 1 THEN elems[1]
  ELSE elems[1] \o sep \o Join(Tail(elems), sep)

(***************************************************************************)
(* mcp.Content items.  origin tells the object the downstream returned     *)
(* from one the gateway allocated.                                         *)
(***************************************************************************)
TextContent(text, annotations, origin) ==
  [type |-> "text", Text |-> text, Annotations |-> annotations,
   origin |-> origin]

ImageContent ==
  [type |-> "image", Text |-> "", Annotations |-> Nil, origin |-> "downstream"]

(***************************************************************************)
(* sanitizeResult.  SanitizeLoop is the for loop over result.Content,      *)
(* entered at item i; processed records the items whose text was handed to *)
(* pipeline.Process.                                                       *)
(***************************************************************************)
\* case sanitizer.VerdictBlock, with the mutant that flags the downstream's
\* own result instead of building a new one.
BlockedResultInPlace(result, pr) == [result EXCEPT !.IsError = TRUE]

BlockedResult(result, pr) ==
  LET reason == IF Len(pr.AllThreats) > 0
                THEN Join(pr.AllThreats, "; ")
                ELSE "blocked by sanitization"
  IN [Content |-> <<TextContent(reason, Nil, "gateway")>>, IsError |-> TRUE]

\* pipeline.Process failed, with the mutant that reports the failure inside
\* an error-flagged result.
ProcessFailedAsResult(result, err) ==
  [result |-> [Content |-> <<TextContent(err, Nil, "gateway")>>,
               IsError |-> TRUE],
   err |-> NoErr]

ProcessFailed(result, err) == [result |-> NilResult, err |-> err]

\* case sanitizer.VerdictModify: the item put in place of the text item,
\* with the mutant that drops the annotations.
ModifiedItemBare(content, pr) == TextContent(pr.FinalContent, Nil, "gateway")

ModifiedItem(content, pr) ==
  TextContent(pr.FinalContent, content.Annotations, "gateway")

RECURSIVE SanitizeLoop(_, _, _, _)
SanitizeLoop(result, p, i, processed) ==
  IF i > Len(result.Content)
  THEN [result |-> result, err |-> NoErr, processed |-> processed]
  ELSE
    LET content == result.Content[i] IN
    IF content.type # "text"
    THEN SanitizeLoop(result, p, i + 1, processed)
    ELSE
      LET out == Process(p, content.Text)
          pr == out.result
          processed2 == Append(processed, i)
      IN
      IF out.err # NoErr
      THEN LET f == ProcessFailed(result, out.err)
           IN [result |-> f.result, err |-> f.err, processed |-> processed2]
      ELSE IF pr.FinalVerdict = VerdictBlock
      THEN [result |-> BlockedResult(result, pr), err |-> NoErr,
            processed |-> processed2]
      ELSE IF pr.FinalVerdict = VerdictModify
      THEN SanitizeLoop(
             [result EXCEPT !.Content[i] = ModifiedItem(content, pr)],
             p, i + 1, processed2)
      ELSE SanitizeLoop(result, p, i + 1, processed2)

sanitizeResult(result, p) == SanitizeLoop(result, p, 1, <<>>)

(***************************************************************************)
(* The values of plOut and pxRet before anything was returned.             *)
(***************************************************************************)
NoProcessOutput ==
  [result |-> EmptyPipelineResult, err |-> NoErr, calls |-> <<>>]

NoReturn == [result |-> NilResult, err |-> NoErr, processed |-> <<>>]

(***************************************************************************)
(* One call of Pipeline.Process.                                           *)
(***************************************************************************)
PipelineProcess ==
  /\ plPc = "call"
  /\ plOut' = Process(pipeline, plInput)
  /\ plPc' = "done"
  /\ UNCHANGED <<pipeline, plInput, plCalls, gwVars, pxVars>>

(***************************************************************************)
(* Concurrent calls of Pipeline.Process on one pipeline, statement by      *)
(* statement.  Call c has its own content, loop index i, result and        *)
(* returned value ret; its variable current lives in the frame Cell(c).    *)
(***************************************************************************)
MaxCalls == 2

\* current := content is a variable of the call, with the mutant in which
\* every call keeps it in one place on the pipeline.
CellShared(c) == 1

Cell(c) == c

ProcessCall(content) ==
  [pc |-> "call", content |-> content, i |-> 1, current |-> "",
   result |-> EmptyPipelineResult, ret |-> NoProcessOutput]

\* current := content; result := PipelineResult{...}
ProcessEnter(c) ==
  /\ plCalls[c].pc = "call"
  /\ LET entered == [plCalls EXCEPT ![c].pc = "loop", ![c].i = 1,
                                    ![c].result = EmptyPipelineResult]
     IN plCalls' = [entered EXCEPT ![Cell(c)].current = plCalls[c].content]
  /\ UNCHANGED <<pipeline, plInput, plOut, plPc, gwVars, pxVars>>

\* One iteration of for _, s := range p.scanners.
ProcessIterate(c) ==
  /\ plCalls[c].pc = "loop"
  /\ plCalls[c].i <= Len(pipeline.scanners)
  /\ LET i == plCalls[c].i
         current == plCalls[Cell(c)].current
         out == Scan(pipeline.scanners[i], current)
         sr == out.res
         r1 == [plCalls[c].result EXCEPT
                  !.ScanResults = Append(@, sr),
                  !.AllThreats = AppendThreats(@, sr)]
     IN
     IF out.err # NoErr
     THEN plCalls' = [plCalls EXCEPT
                        ![c].pc = "done",
                        ![c].ret = OnScanError(plCalls[c].result, out.err,
                                               <<>>)]
     ELSE IF sr.Verdict = VerdictBlock
     THEN plCalls' = [plCalls EXCEPT
                        ![c].pc = "done",
                        ![c].result = r1,
                        ![c].ret = OnBlock(pipeline.scanners, i, current, r1,
                                           sr, <<>>)]
     ELSE IF sr.Verdict = VerdictModify
     THEN LET looped == [plCalls EXCEPT
                           ![c].i = i + 1,
                           ![c].result =
                             [r1 EXCEPT !.FinalVerdict = OnModifyVerdict(@)]]
          IN plCalls' = [looped EXCEPT
                           ![Cell(c)].current = Threaded(current, sr)]
     ELSE plCalls' = [plCalls EXCEPT ![c].i = i + 1, ![c].result = r1]
  /\ UNCHANGED <<pipeline, plInput, plOut, plPc, gwVars, pxVars>>

\* result.FinalContent = current; return result, nil
ProcessReturn(c) ==
  /\ plCalls[c].pc = "loop"
  /\ plCalls[c].i > Len(pipeline.scanners)
  /\ plCalls' = [plCalls EXCEPT
                   ![c].pc = "done",
                   ![c].ret =
                     [result |-> [plCalls[c].result EXCEPT
                                    !.FinalContent =
                                      plCalls[Cell(c)].current],
                      err |-> NoErr, calls |-> <<>>]]
  /\ UNCHANGED <<pipeline, plInput, plOut, plPc, gwVars, pxVars>>

(***************************************************************************)
(* The tail of a proxy call, for any answer of the downstream: the handler *)
(* returns what sanitizeResult returns.                                    *)
(***************************************************************************)
ProxySanitize ==
  /\ pxPc = "sanitize"
  /\ pxRet' = sanitizeResult(pxResult, pipeline)
  /\ pxPc' = "idle"
  /\ UNCHANGED <<pipeline, plVars, gwVars, pxReq, pxCalls, pxHandler,
                 pxSession, sessRet, pxResult>>

SeqsUpTo(S, n) == UNION {[1..k -> S] : k \in 0..n}

(***************************************************************************)
(* Maps (Go's map[string]...) as functions on the set of their keys.       *)
(***************************************************************************)
EmptyMap == [k \in {} |-> Nil]

Put(m, key, value) ==
  [k \in DOMAIN m \cup {key} |-> IF k = key THEN value ELSE m[k]]

Delete(m, key) == [k \in DOMAIN m \ {key} |-> m[k]]

(***************************************************************************)
(* config: the downstream names and their validation.  A name is a         *)
(* sequence of characters.                                                 *)
(***************************************************************************)
namespaceSep == <<"_", "_">>

AlnumChars == {"a", "b", "t", "u"}

\* strings.Contains
Contains(s, sub) ==
  \E i \in 0..(Len(s) - Len(sub)) : SubSeq(s, i + 1, i + Len(sub)) = sub

\* validName.MatchString: ^[a-zA-Z0-9][a-zA-Z0-9_-]*$
validName(s) ==
  /\ Len(s) >= 1
  /\ s[1] \in AlnumChars
  /\ \A i \in 2..Len(s) : s[i] \in AlnumChars \cup {"_", "-"}

TransportStdio == "stdio"
TransportHTTP == "http"

UpstreamConfig(transport) == [Transport |-> transport]

\* A stdio downstream without sanitization overrides, and one with.
DownstreamConfig(name) ==
  [Name |-> name, Transport |-> TransportStdio, Command |-> <<"cmd">>,
   URL |-> "", Sanitization |-> NilPtr]

DownstreamConfigWith(name, override) ==
  [Name |-> name, Transport |-> TransportStdio, Command |-> <<"cmd">>,
   URL |-> "", Sanitization |-> override]

(***************************************************************************)
(* config.SanitizationConfig and config.Merge.                             *)
(***************************************************************************)
SanitizationConfig(max, inj, inv, url, bnd, ovr, dis, patterns) ==
  [MaxResponseChars |-> max,
   EnablePromptInjectionDetection |-> inj,
   EnableInvisibleTextRemoval |-> inv,
   EnableURLValidation |-> url,
   EnableBoundaryInjection |-> bnd,
   EnableSystemOverrideDetection |-> ovr,
   DisableBuiltInPatterns |-> dis,
   CustomInjectionPatterns |-> patterns]

\* if override.F != nil { merged.F = override.F }, with the mutant in which
\* a field the global config has set is kept.
MergeFieldGlobalWins(globalField, overrideField) ==
  IF globalField # NilPtr THEN globalField ELSE overrideField

MergeField(globalField, overrideField) ==
  IF overrideField # NilPtr THEN overrideField ELSE globalField

Merge(global, override) ==
  IF override = NilPtr THEN global
  ELSE
    LET o == override[1] IN
    [MaxResponseChars |->
       MergeField(global.MaxResponseChars, o.MaxResponseChars),
     EnablePromptInjectionDetection |->
       MergeField(global.EnablePromptInjectionDetection,
                  o.EnablePromptInjectionDetection),
     EnableInvisibleTextRemoval |->
       MergeField(global.EnableInvisibleTextRemoval,
                  o.EnableInvisibleTextRemoval),
     EnableURLValidation |->
       MergeField(global.EnableURLValidation, o.EnableURLValidation),
     EnableBoundaryInjection |->
       MergeField(global.EnableBoundaryInjection, o.EnableBoundaryInjection),
     EnableSystemOverrideDetection |->
       MergeField(global.EnableSystemOverrideDetection,
                  o.EnableSystemOverrideDetection),
     DisableBuiltInPatterns |->
       MergeField(global.DisableBuiltInPatterns, o.DisableBuiltInPatterns),
     CustomInjectionPatterns |->
       IF Len(o.CustomInjectionPatterns) > 0
       THEN o.CustomInjectionPatterns
       ELSE global.CustomInjectionPatterns]

\* The sanitization configuration with every stage off.
AllDisabled ==
  SanitizationConfig(Ptr(0), Ptr(FALSE), Ptr(FALSE), Ptr(FALSE), Ptr(FALSE),
                     Ptr(FALSE), Ptr(FALSE), <<>>)

\* The value of merged before any merge.
NotMerged ==
  SanitizationConfig(NilPtr, NilPtr, NilPtr, NilPtr, NilPtr, NilPtr, NilPtr,
                     <<>>)

\* config.Config
Config(up, ds, san) ==
  [Upstream |-> up, Downstream |-> ds, Sanitization |-> san]

DefaultMaxResponseChars == 16000

\* if field == nil { field = default }
Defaulted(field, default) == IF field = NilPtr THEN Ptr(default) ELSE field

\* applyDefaults, without the HTTP address and path of the upstream.
applyDefaults(cfg) ==
  LET san == cfg.Sanitization IN
  Config(
    IF cfg.Upstream.Transport = ""
    THEN UpstreamConfig(TransportStdio) ELSE cfg.Upstream,
    cfg.Downstream,
    SanitizationConfig(
      Defaulted(san.MaxResponseChars, DefaultMaxResponseChars),
      Defaulted(san.EnablePromptInjectionDetection, TRUE),
      Defaulted(san.EnableInvisibleTextRemoval, TRUE),
      Defaulted(san.EnableURLValidation, TRUE),
      Defaulted(san.EnableBoundaryInjection, TRUE),
      Defaulted(san.EnableSystemOverrideDetection, TRUE),
      Defaulted(san.DisableBuiltInPatterns, FALSE),
      san.CustomInjectionPatterns))

\* regexp.Compile(pattern) returns no error, with the mutant that compiles
\* nothing in validate.
regexpCompileSkipped(pattern) == TRUE

regexpCompile(pattern) == pattern # InvalidPattern

\* The first loop of validate over cfg.Downstream, entered at entry i with
\* the names seen so far.
RECURSIVE validateDownstream(_, _, _)
validateDownstream(ds, i, names) ==
  IF i > Len(ds) THEN NoErr
  ELSE IF ds[i].Name = <<>> THEN "name is required"
  ELSE IF ~validName(ds[i].Name) THEN "name must match"
  ELSE IF Contains(ds[i].Name, namespaceSep) THEN "name must not contain __"
  ELSE IF ds[i].Name \in names THEN "duplicate name"
  ELSE IF ds[i].Transport \notin {TransportStdio, TransportHTTP}
       THEN "transport must be stdio or http"
  ELSE IF ds[i].Transport = TransportStdio /\ Len(ds[i].Command) = 0
       THEN "command is required for stdio transport"
  ELSE IF ds[i].Transport = TransportHTTP /\ ds[i].URL = ""
       THEN "url is required for http transport"
  ELSE validateDownstream(ds, i + 1, names \cup {ds[i].Name})

\* The loops over the custom patterns: of the global configuration, then of
\* every downstream that has a sanitization section.
validatePatterns(cfg) ==
  IF \E i \in 1..Len(cfg.Sanitization.CustomInjectionPatterns) :
       ~regexpCompile(cfg.Sanitization.CustomInjectionPatterns[i])
  THEN "sanitization.customInjectionPatterns: invalid regex"
  ELSE IF \E di \in 1..Len(cfg.Downstream) :
            /\ cfg.Downstream[di].Sanitization # NilPtr
            /\ LET ps == cfg.Downstream[di].Sanitization[1]
                            .CustomInjectionPatterns
               IN \E i \in 1..Len(ps) : ~regexpCompile(ps[i])
  THEN "downstream sanitization.customInjectionPatterns: invalid regex"
  ELSE NoErr

validate(cfg) ==
  IF cfg.Upstream.Transport \notin {TransportStdio, TransportHTTP}
  THEN "upstream transport must be stdio or http"
  ELSE IF Len(cfg.Downstream) = 0
  THEN "at least one downstream server is required"
  ELSE IF validateDownstream(cfg.Downstream, 1, {}) # NoErr
  THEN validateDownstream(cfg.Downstream, 1, {})
  ELSE validatePatterns(cfg)

ConfigNames(ds) == {ds[i].Name : i \in 1..Len(ds)}

\* healthCheckLoop's index of the configs by name (a later entry of the same
\* name replaces an earlier one).
cfgByName(ds) ==
  [n \in ConfigNames(ds) |->
     ds[CHOOSE i \in 1..Len(ds) :
          ds[i].Name = n /\ \A j \in (i + 1)..Len(ds) : ds[j].Name # n]]

(***************************************************************************)
(* DownstreamManager.  A session is its index in sess; NilSession is the   *)
(* nil *mcp.ClientSession and NoConn the absent conn.                      *)
(***************************************************************************)
MaxSessions == 3

NilSession == 0
NoConn == [nil |-> TRUE]

\* &DownstreamConn{Name, Session, Config}, with the mutant that hands out
\* the conn before its session is set.
DownstreamConnUnfilled(name, session, config) ==
  [Name |-> name, Session |-> NilSession, Config |-> config]

DownstreamConn(name, session, config) ==
  [Name |-> name, Session |-> session, Config |-> config]

\* The session client.Connect returns, with the mutant that returns it
\* before the handshake.
ClientSessionNoHandshake(server) ==
  [server |-> server, handshaken |-> FALSE, open |-> TRUE,
   closedByManager |-> FALSE]

ClientSession(server) ==
  [server |-> server, handshaken |-> TRUE, open |-> TRUE,
   closedByManager |-> FALSE]

\* DownstreamManager.Session
Session(name) ==
  IF name \in DOMAIN conns THEN conns[name].Session ELSE NilSession

\* DownstreamManager.Conns
Conns == [k \in DOMAIN conns |-> conns[k]]

\* dm.connect under a context: what it returns.  The handshake needs the
\* server to be reachable and the context not to be cancelled.
connect(ctxCancelled, ds) ==
  IF reachable[ds.Name] /\ ~ctxCancelled
  THEN [conn |-> DownstreamConn(ds.Name, Len(sess) + 1, ds), err |-> NoErr]
  ELSE [conn |-> NoConn, err |-> "connecting"]

\* session.Close() called by the manager on the sessions in ids.
ClosedByManager(ss, ids) ==
  [i \in 1..Len(ss) |->
     IF i \in ids THEN [ss[i] EXCEPT !.open = FALSE, !.closedByManager = TRUE]
     ELSE ss[i]]

\* dm.conns = make(map[string]*DownstreamConn) at the end of Close, with
\* the mutant that leaves the map as it is.
ClearedMapKept(c) == c

ClearedMap(c) == EmptyMap

\* session.Ping / session.CallTool / session.Tools answer without error.
Answers(session, name, ctxCancelled) ==
  sess[session].open /\ reachable[name] /\ ~ctxCancelled

(***************************************************************************)
(* config.Load: validation decides whether the gateway starts.             *)
(***************************************************************************)
LoadConfig ==
  /\ mainPc = "load"
  /\ LET cfg == applyDefaults(Config(upstream, downstream, globalCfg)) IN
     /\ upstream' = cfg.Upstream
     /\ globalCfg' = cfg.Sanitization
     /\ mainPc' = IF validate(cfg) = NoErr THEN "new" ELSE "cfgerr"
  /\ UNCHANGED <<pipeline, plVars, envEvents, downstream, catalog, merged,
                 sanPc, connsVars, reachable, newIdx, newAttempts,
                 conns, sess, cancelled, closeVars, hcVars, regVars, swapped,
                 pxVars>>

\* gateway.New called with a Config that its caller built instead of loading
\* it: the downstream entries are sound, the custom patterns unchecked.
NewGateway ==
  /\ mainPc = "load"
  /\ Len(downstream) > 0
  /\ validateDownstream(downstream, 1, {}) = NoErr
  /\ mainPc' = "new"
  /\ UNCHANGED <<fixedVars, reachable, newIdx, newAttempts,
                 conns, sess, cancelled, closeVars, hcVars, regVars, swapped,
                 pxVars>>

(***************************************************************************)
(* NewDownstreamManager: one iteration of the loop over downstream, and    *)
(* the rest of the constructor after the loop.                             *)
(***************************************************************************)
NewConnect ==
  /\ mainPc = "new"
  /\ newIdx <= Len(downstream)
  /\ LET ds == downstream[newIdx]
         c == connect(FALSE, ds)
     IN
     /\ c.err = NoErr => Len(sess) < MaxSessions
     /\ IF c.err # NoErr
        THEN UNCHANGED <<conns, sess>>
        ELSE /\ conns' = Put(conns, ds.Name, c.conn)
             /\ sess' = Append(sess, ClientSession(ds.Name))
     /\ newAttempts' = Append(newAttempts, [name |-> ds.Name, err |-> c.err])
  /\ newIdx' = newIdx + 1
  /\ UNCHANGED <<fixedVars, reachable, mainPc, cancelled,
                 closeVars, hcVars, regVars, swapped, pxVars>>

\* len(dm.conns) == 0, with the mutant that wants every downstream connected.
ConstructionFailsOnAny(c, ds) == Cardinality(DOMAIN c) < Len(ds)

ConstructionFails(c, ds) == Cardinality(DOMAIN c) = 0

NewFinish ==
  /\ mainPc = "new"
  /\ newIdx > Len(downstream)
  /\ IF ConstructionFails(conns, downstream)
     THEN /\ mainPc' = "failed"
          /\ UNCHANGED hcPc
     ELSE /\ mainPc' = "ready"
          /\ hcPc' = "wait"
  /\ UNCHANGED <<fixedVars, reachable, newIdx, newAttempts,
                 conns, sess, cancelled, closeVars, hcTodo, hcName, hcConn,
                 hcNew, regVars, swapped, pxVars>>

(***************************************************************************)
(* DownstreamManager.Conns, statement by statement: dm.mu.RLock and        *)
(* make, one iteration of the range over dm.conns, and the return with     *)
(* the deferred RUnlock.  dm.mu.Lock waits while the read lock is held.    *)
(***************************************************************************)
\* Some call of Conns holds dm.mu for reading, with the mutant in which
\* Conns does not lock.
RLockedNever == FALSE

RLocked == connsPc = "copy"

ConnsRLock ==
  /\ mainPc \in {"ready", "serving", "regerr"}
  /\ connsPc \in {"idle", "returned"}
  /\ connsPc' = "copy"
  /\ connsTodo' = DOMAIN conns
  /\ connsOut' = EmptyMap
  /\ UNCHANGED <<pipeline, plVars, envEvents, cfgVars, sanVars, reachable,
                 mainVars, conns, sess, cancelled, closeVars, hcVars, regVars,
                 swapped, pxVars>>

ConnsCopy ==
  /\ connsPc = "copy"
  /\ \E k \in connsTodo :
       /\ connsOut' = IF k \in DOMAIN conns THEN Put(connsOut, k, conns[k])
                      ELSE connsOut
       /\ connsTodo' = connsTodo \ {k}
  /\ UNCHANGED <<pipeline, plVars, envEvents, cfgVars, sanVars, reachable,
                 mainVars, conns, sess, cancelled, closeVars, hcVars, regVars,
                 swapped, pxVars, connsPc>>

ConnsReturn ==
  /\ connsPc = "copy"
  /\ connsTodo = {}
  /\ connsPc' = "returned"
  /\ UNCHANGED <<pipeline, plVars, envEvents, cfgVars, sanVars, reachable,
                 mainVars, conns, sess, cancelled, closeVars, hcVars, regVars,
                 swapped, pxVars, connsTodo, connsOut>>

\* The caller deletes an entry of the map it was given, or adds one.
CallerEdit ==
  /\ connsPc = "returned"
  /\ \/ \E k \in DOMAIN connsOut : connsOut' = Delete(connsOut, k)
     \/ /\ <<"u">> \notin DOMAIN connsOut
        /\ connsOut' = Put(connsOut, <<"u">>, NoConn)
  /\ UNCHANGED <<pipeline, plVars, envEvents, cfgVars, sanVars, reachable,
                 mainVars, conns, sess, cancelled, closeVars, hcVars, regVars,
                 swapped, pxVars, connsPc, connsTodo>>

(***************************************************************************)
(* DownstreamManager.Close: the cancellation of the liveness loop's        *)
(* context, then the section under dm.mu.Lock.                             *)
(***************************************************************************)
CloseCancel ==
  /\ mainPc \in {"ready", "serving", "regerr"}
  /\ regPc # "iter"
  /\ closePc = "idle"
  /\ cancelled' = TRUE
  /\ closePc' = "cancelled"
  /\ UNCHANGED <<fixedVars, reachable, mainVars, conns, sess,
                 closeReturned, hcVars, regVars, swapped, pxVars>>

CloseLocked ==
  /\ closePc = "cancelled"
  /\ ~RLocked
  /\ sess' = ClosedByManager(sess, {conns[k].Session : k \in DOMAIN conns})
  /\ conns' = ClearedMap(conns)
  /\ closePc' = "idle"
  /\ closeReturned' = TRUE
  /\ UNCHANGED <<fixedVars, reachable, mainVars, cancelled,
                 hcVars, regVars, swapped, pxVars>>

(***************************************************************************)
(* healthCheckLoop: the select, and checkAndReconnect step by step.  Each  *)
(* section under dm.mu is one step.                                        *)
(***************************************************************************)
\* ctx.Err() != nil on entry of checkAndReconnect, with the mutant that
\* does not look at the context.
ctxErrUnchecked(ctxCancelled) == FALSE

ctxErr(ctxCancelled) == ctxCancelled

\* case <-ticker.C: checkAndReconnect returns at once under a cancelled
\* context, otherwise it starts ranging over cfgs.
HCTick ==
  /\ hcPc = "wait"
  /\ IF ctxErr(cancelled)
     THEN UNCHANGED <<hcPc, hcTodo>>
     ELSE /\ hcPc' = "iter"
          /\ hcTodo' = DOMAIN cfgByName(downstream)
  /\ UNCHANGED <<fixedVars, reachable, mainVars, conns, sess,
                 cancelled, closeVars, hcName, hcConn, hcNew, regVars, swapped,
                 pxVars>>

\* case <-ctx.Done()
HCExit ==
  /\ hcPc = "wait"
  /\ cancelled
  /\ hcPc' = "exited"
  /\ UNCHANGED <<fixedVars, reachable, mainVars, conns, sess,
                 cancelled, closeVars, hcTodo, hcName, hcConn, hcNew, regVars,
                 swapped, pxVars>>

\* The range is over: back to the select.
HCDone ==
  /\ hcPc = "iter"
  /\ hcTodo = {}
  /\ hcPc' = "wait"
  /\ UNCHANGED <<fixedVars, reachable, mainVars, conns, sess,
                 cancelled, closeVars, hcTodo, hcName, hcConn, hcNew, regVars,
                 swapped, pxVars>>

\* if connected { ping ... }, then the reconnect; with the mutant that
\* goes on to the next name when no conn is present.
AfterReadSkipsMissing(connected) == IF connected THEN "ping" ELSE "iter"

AfterRead(connected) == IF connected THEN "ping" ELSE "connect"

\* conn, connected := dm.conns[name] under RLock.
HCRead ==
  /\ hcPc = "iter"
  /\ \E name \in hcTodo :
       /\ hcTodo' = hcTodo \ {name}
       /\ hcName' = name
       /\ hcConn' = IF name \in DOMAIN conns THEN conns[name] ELSE NoConn
       /\ hcPc' = AfterRead(name \in DOMAIN conns)
  /\ UNCHANGED <<fixedVars, reachable, mainVars, conns, sess,
                 cancelled, closeVars, hcNew, regVars, swapped, pxVars>>

\* The ping; on failure the old session is closed.
HCPing ==
  /\ hcPc = "ping"
  /\ IF Answers(hcConn.Session, hcName, cancelled)
     THEN /\ hcPc' = "iter"
          /\ hcName' = <<>>
          /\ hcConn' = NoConn
          /\ UNCHANGED sess
     ELSE /\ sess' = ClosedByManager(sess, {hcConn.Session})
          /\ hcPc' = "connect"
          /\ UNCHANGED <<hcName, hcConn>>
  /\ UNCHANGED <<fixedVars, reachable, mainVars, conns,
                 cancelled, closeVars, hcTodo, hcNew, regVars, swapped,
                 pxVars>>

\* newConn, err := dm.connect(ctx, cfg)
HCConnect ==
  /\ hcPc = "connect"
  /\ LET c == connect(cancelled, cfgByName(downstream)[hcName]) IN
     /\ c.err = NoErr => Len(sess) < MaxSessions
     /\ hcNew' = c.conn
     /\ IF c.err # NoErr
        THEN hcPc' = "delete" /\ UNCHANGED sess
        ELSE hcPc' = "install" /\ sess' = Append(sess, ClientSession(hcName))
  /\ UNCHANGED <<fixedVars, reachable, mainVars, conns,
                 cancelled, closeVars, hcTodo, hcName, hcConn, regVars, swapped,
                 pxVars>>

\* delete(dm.conns, name), with the mutant that leaves the stale entry.
DeleteConnKept(c, name) == c

DeleteConn(c, name) == Delete(c, name)

\* The removal after a failed reconnect, under Lock.
HCDelete ==
  /\ hcPc = "delete"
  /\ ~RLocked
  /\ conns' = DeleteConn(conns, hcName)
  /\ hcPc' = "iter"
  /\ hcName' = <<>>
  /\ hcConn' = NoConn
  /\ hcNew' = NoConn
  /\ UNCHANGED <<fixedVars, reachable, mainVars, sess,
                 cancelled, closeVars, hcTodo, regVars, swapped, pxVars>>

\* dm.conns[name] = newConn under Lock, with the mutant that leaves the old
\* entry in place.
InstallConnSkipped(c, name, newConn) == c

InstallConn(c, name, newConn) == Put(c, name, newConn)

HCInstall ==
  /\ hcPc = "install"
  /\ ~RLocked
  /\ conns' = InstallConn(conns, hcName, hcNew)
  /\ hcPc' = "iter"
  /\ swapped' = IF regPc # "idle" THEN Put(swapped, hcName, hcNew.Session)
                ELSE swapped
  /\ hcName' = <<>>
  /\ hcConn' = NoConn
  /\ hcNew' = NoConn
  /\ UNCHANGED <<fixedVars, reachable, mainVars, sess,
                 cancelled, closeVars, hcTodo, regVars, pxVars>>

(***************************************************************************)
(* The environment: a downstream server goes away or comes back, and a     *)
(* live session is closed out-of-band, MaxEnvEvents times in all.          *)
(***************************************************************************)
MaxEnvEvents == 2

EnvToggle ==
  /\ envEvents < MaxEnvEvents
  /\ envEvents' = envEvents + 1
  /\ mainPc \in {"new", "ready", "serving", "regerr"}
  /\ \E name \in DOMAIN reachable :
       reachable' = [reachable EXCEPT ![name] = ~reachable[name]]
  /\ UNCHANGED <<pipeline, plVars, cfgVars, sanVars, connsVars, mainVars,
                 conns, sess,
                 cancelled, closeVars, hcVars, regVars, swapped, pxVars>>

EnvCloseSession ==
  /\ envEvents < MaxEnvEvents
  /\ envEvents' = envEvents + 1
  /\ \E name \in DOMAIN conns :
       /\ sess[conns[name].Session].open
       /\ sess' = [sess EXCEPT ![conns[name].Session].open = FALSE]
  /\ UNCHANGED <<pipeline, plVars, cfgVars, sanVars, connsVars, reachable,
                 mainVars,
                 conns, cancelled, closeVars, hcVars, regVars, swapped,
                 pxVars>>

(***************************************************************************)
(* Registry.  An upstream tool is its proxy handler's closure: the server  *)
(* name, the downstream tool name, the namespaced name and the pipeline.   *)
(***************************************************************************)
\* serverName + namespaceSep + tool.Name
NamespacedName(serverName, toolName) == serverName \o namespaceSep \o toolName

proxyHandler(serverName, downstreamName, namespacedName, p) ==
  [serverName |-> serverName, downstreamName |-> downstreamName,
   namespacedName |-> namespacedName, pipeline |-> p]

\* deref of a *bool, with the mutant in which an absent toggle enables.
derefAbsentEnables(b) == b = NilPtr \/ b[1]

deref(b) == b # NilPtr /\ b[1]

\* BuildPipeline: the enabled stages in their fixed order, or the error of
\* the injection scanner's construction.
BuildPipeline(cfg, source) ==
  LET unicode == IF deref(cfg.EnableInvisibleTextRemoval)
                 THEN <<[name |-> "unicode"]>> ELSE <<>>
      length == IF cfg.MaxResponseChars # NilPtr /\ cfg.MaxResponseChars[1] > 0
                THEN <<NewLengthScanner(cfg.MaxResponseChars[1])>> ELSE <<>>
      inj == NewInjectionScanner(deref(cfg.DisableBuiltInPatterns),
                                 cfg.CustomInjectionPatterns)
      injection == IF deref(cfg.EnablePromptInjectionDetection)
                   THEN <<inj.scanner>> ELSE <<>>
      override == IF deref(cfg.EnableSystemOverrideDetection)
                  THEN <<[name |-> "override"]>> ELSE <<>>
      url == IF deref(cfg.EnableURLValidation)
             THEN <<[name |-> "url"]>> ELSE <<>>
      boundary == IF deref(cfg.EnableBoundaryInjection)
                  THEN <<NewBoundaryScanner(source)>> ELSE <<>>
  IN IF deref(cfg.EnablePromptInjectionDetection) /\ inj.err # NoErr
     THEN [pipeline |-> NewPipeline(<<>>),
           err |-> "injection scanner: " \o inj.err]
     ELSE [pipeline |->
             NewPipeline(unicode \o length \o injection \o override \o url
                           \o boundary),
           err |-> NoErr]

\* The calls of upstream.Server.AddTool that registerServer makes for the
\* tools a server lists, in the order listed.
registerServer(serverName, tools, p) ==
  [i \in 1..Len(tools) |->
     [Name |-> NamespacedName(serverName, tools[i]),
      handler |-> proxyHandler(serverName, tools[i],
                               NamespacedName(serverName, tools[i]), p)]]

\* mcp.Server.AddTool adds a tool or replaces the one of the same name.
RECURSIVE AddTools(_, _)
AddTools(tools, calls) ==
  IF calls = <<>> THEN tools
  ELSE AddTools(Put(tools, calls[1].Name, calls[1].handler), Tail(calls))

\* if total == 0, with the mutant that accepts an empty registry.
NoToolsDiscoveredNever(total) == FALSE

NoToolsDiscovered(total) == total = 0

\* Gateway.Run after DiscoverAndRegister returned err: it returns the error
\* wrapped, or calls upstream.Run.
RunAfterDiscovery(err) == IF err # NoErr THEN "regerr" ELSE "serving"

\* Gateway.Run calls DiscoverAndRegister once, between the construction of
\* the manager and upstream.Run; with the mutant that discovers again while
\* serving.
DiscoveryDueWhileServing ==
  mainPc \in {"ready", "serving"} /\ regPc \in {"idle", "done"}

DiscoveryDue == mainPc = "ready" /\ regPc = "idle"

\* DiscoverAndRegister up to its loop: the snapshot r.downstream.Conns().
DiscoverStart ==
  /\ DiscoveryDue
  /\ ~cancelled
  /\ regSnap' = Conns
  /\ regTodo' = DOMAIN conns
  /\ regTotal' = 0
  /\ regPc' = "iter"
  /\ UNCHANGED <<fixedVars, reachable, mainVars, conns, sess,
                 cancelled, closeVars, hcVars, registered, advertised,
                 upstreamTools, swapped, pxVars>>

\* One iteration of the loop: merge the configuration, build the pipeline,
\* list the server's tools over the snapshot's session and register them; a
\* failed build or listing ends DiscoverAndRegister.
RegisterServer ==
  /\ regPc = "iter"
  /\ \E name \in regTodo :
       LET built == BuildPipeline(
                      Merge(globalCfg, regSnap[name].Config.Sanitization),
                      Join(name, ""))
       IN
       IF built.err = NoErr /\ Answers(regSnap[name].Session, name, FALSE)
       THEN LET calls == registerServer(name, catalog[name], built.pipeline)
            IN /\ registered' = registered \o calls
               /\ upstreamTools' = AddTools(upstreamTools, calls)
               /\ advertised' = Put(advertised, name, catalog[name])
               /\ regTotal' = regTotal + Len(calls)
               /\ regTodo' = regTodo \ {name}
               /\ UNCHANGED <<regPc, mainPc>>
       ELSE /\ regPc' = "failed"
            /\ mainPc' = RunAfterDiscovery("registry")
            /\ UNCHANGED <<registered, upstreamTools, advertised, regTotal,
                           regTodo>>
  /\ UNCHANGED <<fixedVars, reachable, newIdx, newAttempts, conns, sess,
                 cancelled, closeVars, hcVars, regSnap, swapped, pxVars>>

\* After the loop: total == 0 is an error.  Gateway.Run goes on with what
\* DiscoverAndRegister returned.
DiscoverFinish ==
  /\ regPc = "iter"
  /\ regTodo = {}
  /\ regPc' = IF NoToolsDiscovered(regTotal) THEN "failed" ELSE "done"
  /\ mainPc' = RunAfterDiscovery(
                 IF NoToolsDiscovered(regTotal) THEN "registry" ELSE NoErr)
  /\ UNCHANGED <<fixedVars, reachable, newIdx, newAttempts, conns, sess,
                 cancelled, closeVars, hcVars, regSnap, regTodo, regTotal,
                 registered, advertised, upstreamTools, swapped, pxVars>>

(***************************************************************************)
(* The return of Gateway.Run.  defer dm.Close() runs when Run returns      *)
(* after the manager was constructed: on the error of discovery or when    *)
(* upstream.Run has returned, with an error or on cancellation.  Run       *)
(* returns "downstream: ..." at once when the construction failed.         *)
(***************************************************************************)
RunDeferredClose ==
  /\ mainPc \in {"serving", "regerr"}
  /\ ~closeReturned
  /\ CloseCancel

\* The deferred call has returned, with the mutant in which Run does not
\* defer dm.Close().
DeferredCloseSkipped == TRUE

DeferredCloseReturned == closeReturned

RunReturn ==
  /\ mainPc \in {"failed", "serving", "regerr"}
  /\ mainPc # "failed" => DeferredCloseReturned
  /\ mainPc' = "returned"
  /\ UNCHANGED <<fixedVars, reachable, newIdx, newAttempts, conns, sess,
                 cancelled, closeVars, hcVars, regVars, swapped, pxVars>>

(***************************************************************************)
(* A proxy call.                                                           *)
(***************************************************************************)
\* The session a handler forwards on, with the mutant that captured the
\* session at registration.
HandlerSessionCaptured(h) == regSnap[h.serverName].Session

HandlerSession(h) == Session(h.serverName)

\* The text downstream tools answer with.
DownstreamAnswer ==
  [Content |-> <<TextContent("ok", Nil, "downstream")>>, IsError |-> FALSE]

CallFailure(err) == [result |-> NilResult, err |-> err, processed |-> <<>>]

\* fmt.Errorf("downstream %s not connected", serverName), with the mutant
\* that leaves the name out.
NotConnectedUnnamed(serverName) == "downstream not connected"

NotConnected(serverName) ==
  "downstream " \o Join(serverName, "") \o " not connected"

\* The error session.CallTool returns when the downstream does not answer.
DownstreamError == "connection closed"

\* The values of the proxy call's variables while no call is in flight.
NoHandler == proxyHandler(<<>>, <<>>, <<>>, NewPipeline(<<>>))
NoSessionReturn ==
  [name |-> <<>>, session |-> NilSession, handshaken |-> FALSE,
   closedByManager |-> FALSE, swap |-> NilSession]
NoRequest == [Name |-> <<>>, Arguments |-> Nil]

\* req.Params.Arguments of the upstream callers.
CallerArguments == {"{}", "{\"k\":1}"}

\* &mcp.CallToolParams{Name: downstreamName, Arguments:
\* req.Params.Arguments}, with the mutant that forwards the namespaced
\* name.
CallToolParamsNamespaced(h, req) ==
  [Name |-> h.namespacedName, Arguments |-> req.Arguments]

CallToolParams(h, req) ==
  [Name |-> h.downstreamName, Arguments |-> req.Arguments]

\* The upstream server dispatches a call of the tool n to its handler;
\* session := dm.Session(serverName); a nil session ends the call.
ProxyLookup ==
  /\ pxPc = "idle"
  /\ regPc = "done"
  /\ \E n \in DOMAIN upstreamTools, args \in CallerArguments :
       LET h == upstreamTools[n]
           s == HandlerSession(h)
       IN /\ pxHandler' = IF s = NilSession THEN NoHandler ELSE h
          /\ pxSession' = s
          /\ sessRet' = [name |-> h.serverName, session |-> s,
                         handshaken |-> s # NilSession /\ sess[s].handshaken,
                         closedByManager |->
                           s # NilSession /\ sess[s].closedByManager,
                         swap |-> IF h.serverName \in DOMAIN swapped
                                  THEN swapped[h.serverName] ELSE NilSession]
          /\ IF s = NilSession
             THEN /\ pxRet' = CallFailure(NotConnected(h.serverName))
                  /\ UNCHANGED <<pxPc, pxReq>>
             ELSE /\ pxPc' = "forward"
                  /\ pxReq' = [Name |-> n, Arguments |-> args]
                  /\ pxRet' = NoReturn
  /\ UNCHANGED <<pipeline, plVars, gwVars, pxCalls, pxResult>>

\* session.CallTool with the original tool name: the request goes out on
\* the session.
ProxyForward ==
  /\ pxPc = "forward"
  /\ pxCalls' = Append(pxCalls, [session |-> pxSession,
                                 params |-> CallToolParams(pxHandler, pxReq)])
  /\ pxPc' = "await"
  /\ UNCHANGED <<pipeline, plVars, gwVars, pxReq, pxHandler, pxSession,
                 sessRet, pxResult, pxRet>>

\* session.CallTool returns and, when the downstream answered, the handler
\* returns what sanitizeResult returns on its answer.
ProxyReturn ==
  /\ pxPc = "await"
  /\ IF Answers(pxSession, pxHandler.serverName, FALSE)
     THEN pxRet' = sanitizeResult(DownstreamAnswer, pxHandler.pipeline)
     ELSE pxRet' = CallFailure("downstream call "
                               \o Join(pxHandler.namespacedName, "")
                               \o ": " \o DownstreamError)
  /\ pxCalls' = Tail(pxCalls)
  /\ pxPc' = "idle"
  /\ pxReq' = NoRequest
  /\ pxHandler' = NoHandler
  /\ pxSession' = NilSession
  /\ sessRet' = NoSessionReturn
  /\ UNCHANGED <<pipeline, plVars, gwVars, pxResult>>

(***************************************************************************)
(* The gateway: a valid configuration of two downstreams, each with one    *)
(* tool, in any state of reachability.                                     *)
(***************************************************************************)
PipelineIdle ==
  /\ pipeline = NewPipeline(<<>>)
  /\ plInput = "ok"
  /\ plOut = NoProcessOutput
  /\ plCalls = <<>>
  /\ plPc = "done"

SanitizationIdle ==
  /\ globalCfg = AllDisabled
  /\ merged = NotMerged
  /\ sanPc = "idle"

GatewayStart ==
  /\ envEvents = 0
  /\ mainPc = "load"
  /\ newIdx = 1
  /\ newAttempts = <<>>
  /\ conns = EmptyMap
  /\ sess = <<>>
  /\ cancelled = FALSE
  /\ closePc = "idle"
  /\ closeReturned = FALSE
  /\ connsPc = "idle"
  /\ connsTodo = {}
  /\ connsOut = EmptyMap
  /\ hcPc = "none"
  /\ hcTodo = {}
  /\ hcName = <<>>
  /\ hcConn = NoConn
  /\ hcNew = NoConn
  /\ regPc = "idle"
  /\ regSnap = EmptyMap
  /\ regTodo = {}
  /\ regTotal = 0
  /\ registered = <<>>
  /\ advertised = EmptyMap
  /\ upstreamTools = EmptyMap
  /\ swapped = EmptyMap
  /\ pxPc = "idle"
  /\ pxReq = NoRequest
  /\ pxCalls = <<>>
  /\ pxHandler = NoHandler
  /\ pxSession = NilSession
  /\ sessRet = NoSessionReturn
  /\ pxResult = DownstreamAnswer
  /\ pxRet = NoReturn

GatewayDownstream ==
  <<DownstreamConfig(<<"a">>), DownstreamConfig(<<"b">>)>>

Init ==
  /\ PipelineIdle
  /\ upstream = UpstreamConfig(TransportStdio)
  /\ downstream = GatewayDownstream
  /\ catalog = [n \in ConfigNames(GatewayDownstream) |-> << <<"t">> >>]
  /\ reachable \in [ConfigNames(GatewayDownstream) -> BOOLEAN]
  /\ SanitizationIdle
  /\ GatewayStart

Next ==
  \/ LoadConfig \/ NewConnect \/ NewFinish
  \/ CloseCancel \/ CloseLocked
  \/ HCTick \/ HCExit \/ HCDone \/ HCRead \/ HCPing \/ HCConnect
  \/ HCDelete \/ HCInstall
  \/ EnvToggle \/ EnvCloseSession
  \/ DiscoverStart \/ RegisterServer \/ DiscoverFinish
  \/ ProxyLookup \/ ProxyForward \/ ProxyReturn

Spec == Init /\ [][Next]_vars

(***************************************************************************)
(* The manager with its liveness loop running: the ticker fires again and  *)
(* again (time.NewTicker, 30 s) and the goroutine of healthCheckLoop takes *)
(* each enabled step of checkAndReconnect; pings and connects return       *)
(* (5 s and context deadlines).  Close and the environment are not forced. *)
(***************************************************************************)
NextLive ==
  \/ LoadConfig \/ NewConnect \/ NewFinish
  \/ CloseCancel \/ CloseLocked
  \/ HCTick \/ HCExit \/ HCDone \/ HCRead \/ HCPing \/ HCConnect
  \/ HCDelete \/ HCInstall
  \/ EnvToggle \/ EnvCloseSession

LoopFairness ==
  /\ WF_vars(HCTick) /\ WF_vars(HCExit) /\ WF_vars(HCDone)
  /\ WF_vars(HCRead) /\ WF_vars(HCPing) /\ WF_vars(HCConnect)
  /\ WF_vars(HCDelete) /\ WF_vars(HCInstall)

SpecLive == Init /\ [][NextLive]_vars /\ LoopFairness

(***************************************************************************)
(* Gateway.Run from the loaded configuration to its return, with the       *)
(* liveness loop and the environment running beside it.                    *)
(***************************************************************************)
NextRun ==
  \/ LoadConfig \/ NewConnect \/ NewFinish
  \/ DiscoverStart \/ RegisterServer \/ DiscoverFinish
  \/ RunDeferredClose \/ CloseLocked \/ RunReturn
  \/ HCTick \/ HCExit \/ HCDone \/ HCRead \/ HCPing \/ HCConnect
  \/ HCDelete \/ HCInstall
  \/ EnvToggle \/ EnvCloseSession

SpecRun == Init /\ [][NextRun]_vars

(***************************************************************************)
(* The manager alone, with calls of Conns taken statement by statement     *)
(* among the liveness checks, reconnects, removals and Close.              *)
(***************************************************************************)
NextConns ==
  \/ LoadConfig \/ NewConnect \/ NewFinish
  \/ CloseCancel \/ CloseLocked
  \/ HCTick \/ HCExit \/ HCDone \/ HCRead \/ HCPing \/ HCConnect
  \/ HCDelete \/ HCInstall
  \/ EnvToggle \/ EnvCloseSession
  \/ ConnsRLock \/ ConnsCopy \/ ConnsReturn \/ CallerEdit

SpecConns == Init /\ [][NextConns]_vars

(***************************************************************************)
(* Startup and discovery alone, for every configuration over a small set   *)
(* of names, every catalogue over a small set of tool names and every      *)
(* state of reachability.  Nothing is listed or connected when the         *)
(* downstream entries are rejected, and every server has the one tool t    *)
(* when the global custom pattern does not compile.                        *)
(***************************************************************************)
MaxDownstreams == 2

DownstreamNames ==
  { <<"a">>, <<"a", "_">>, <<"b">>,
    <<>>, <<"_", "a">>, <<"a", "_", "_", "b">> }

ToolNames == { <<"t">>, <<"_", "t">>, <<"t", "_", "_", "u">> }

ToolLists ==
  { <<>>, << <<"t">> >>, << <<"_", "t">> >>, << <<"t", "_", "_", "u">> >>,
    << <<"t">>, <<"_", "t">> >>, << <<"_", "t">>, <<"t", "_", "_", "u">> >> }

Configs ==
  { [i \in 1..Len(names) |-> DownstreamConfig(names[i])] :
      names \in SeqsUpTo(DownstreamNames, MaxDownstreams) }

\* The global sanitization configurations: every stage off, and prompt
\* injection detection with a custom pattern that does not compile.
RegGlobalConfigs ==
  { AllDisabled,
    SanitizationConfig(Ptr(0), Ptr(TRUE), Ptr(FALSE), Ptr(FALSE), Ptr(FALSE),
                       Ptr(FALSE), Ptr(FALSE), <<InvalidPattern>>) }

InitReg ==
  /\ PipelineIdle
  /\ upstream = UpstreamConfig(TransportStdio)
  /\ downstream \in Configs
  /\ globalCfg \in RegGlobalConfigs
  /\ catalog \in IF validateDownstream(downstream, 1, {}) # NoErr
                 THEN {[n \in ConfigNames(downstream) |-> <<>>]}
                 ELSE IF globalCfg # AllDisabled
                 THEN {[n \in ConfigNames(downstream) |-> << <<"t">> >>]}
                 ELSE [ConfigNames(downstream) -> ToolLists]
  /\ reachable \in IF validateDownstream(downstream, 1, {}) = NoErr
                   THEN [ConfigNames(downstream) -> BOOLEAN]
                   ELSE {[n \in ConfigNames(downstream) |-> FALSE]}
  /\ merged = NotMerged
  /\ sanPc = "idle"
  /\ GatewayStart

NextReg ==
  \/ LoadConfig \/ NewGateway \/ NewConnect \/ NewFinish
  \/ DiscoverStart \/ RegisterServer \/ DiscoverFinish
  \/ EnvToggle

SpecReg == InitReg /\ [][NextReg]_vars

(***************************************************************************)
(* Sanitization alone: one downstream s, a global configuration and an     *)
(* override drawn from the configurations below, the pipeline built from   *)
(* their merge, and one result of two text items around an image sent      *)
(* through it.                                                             *)
(***************************************************************************)
SanServer == <<"s">>

Runes ==
  { PlainRune, ZeroWidthRune, FullWidthRune, "[INST]", "cus", "pretend to be",
    DangerousScheme, ExfilURL }

SanTexts == SeqsUpTo(Runes, MaxTextLen)

FieldNames == {"max", "inj", "inv", "url", "bnd", "ovr", "dis", "cus"}

\* The configuration that sets the fields in present, every toggle to on
\* and the limit to 1 or 0.
ConfigOf(present, on, patterns) ==
  LET toggle(f) == IF f \in present THEN Ptr(on) ELSE NilPtr IN
  SanitizationConfig(
    IF "max" \in present THEN Ptr(IF on THEN 1 ELSE 0) ELSE NilPtr,
    toggle("inj"), toggle("inv"), toggle("url"), toggle("bnd"), toggle("ovr"),
    toggle("dis"),
    IF "cus" \in present THEN patterns ELSE <<>>)

GlobalConfigs ==
  { ConfigOf(FieldNames, TRUE, <<"glob">>),
    ConfigOf(FieldNames, FALSE, <<>>),
    ConfigOf(FieldNames \ {"dis"}, TRUE, <<InvalidPattern>>),
    ConfigOf({"max", "inv", "bnd"}, TRUE, <<>>) }

Overrides ==
  {NilPtr} \cup
  { Ptr(ConfigOf(present, on, IF on THEN <<>> ELSE <<"cus">>)) :
      present \in SUBSET FieldNames, on \in BOOLEAN }

\* DiscoverAndRegister's merge and build for the server.
BuildServerPipeline ==
  /\ sanPc = "start"
  /\ LET m == Merge(globalCfg, downstream[1].Sanitization)
         built == BuildPipeline(m, Join(downstream[1].Name, ""))
     IN /\ merged' = m
        /\ pipeline' = built.pipeline
        /\ sanPc' = IF built.err = NoErr THEN "built" ELSE "failed"
  /\ UNCHANGED <<plVars, dmVars, globalCfg, pxVars>>

\* The downstream's result for a text.
TextResult(text) ==
  [Content |-> <<TextContent(text, "audience", "downstream"), ImageContent,
                 TextContent(text, Nil, "downstream")>>,
   IsError |-> FALSE]

\* The tail of a proxy call on the built pipeline; plOut is what Process
\* returns for the text of the items.
SanitizeText ==
  /\ sanPc = "built"
  /\ \E text \in SanTexts :
       /\ plInput' = text
       /\ plOut' = Process(pipeline, text)
       /\ UNCHANGED plCalls
       /\ pxResult' = TextResult(text)
       /\ pxRet' = sanitizeResult(TextResult(text), pipeline)
  /\ plPc' = "done"
  /\ sanPc' = "done"
  /\ UNCHANGED <<pipeline, dmVars, globalCfg, merged, pxPc, pxReq, pxCalls,
                 pxHandler, pxSession, sessRet>>

InitSan ==
  /\ pipeline = NewPipeline(<<>>)
  /\ plInput = <<>>
  /\ plOut = NoProcessOutput
  /\ plCalls = <<>>
  /\ plPc = "call"
  /\ globalCfg \in GlobalConfigs
  /\ upstream = UpstreamConfig(TransportStdio)
  /\ downstream \in {<<DownstreamConfigWith(SanServer, o)>> : o \in Overrides}
  /\ catalog = EmptyMap
  /\ reachable = EmptyMap
  /\ merged = NotMerged
  /\ sanPc = "start"
  /\ GatewayStart

NextSan == BuildServerPipeline \/ SanitizeText

SpecSan == InitSan /\ [][NextSan]_vars

(***************************************************************************)
(* The inputs of the pipeline specification.                               *)
(***************************************************************************)

StubResult(v, c, t) == [Verdict |-> v, Content |-> c, Threats |-> t]

StubScanner(name, when, result, err) ==
  [name |-> name, when |-> when, result |-> result, err |-> err]

StubScanners ==
  { StubScanner("pass", AnyContent, StubResult(VerdictPass, "", <<>>), NoErr),
    StubScanner("noisy", AnyContent,
                StubResult(VerdictPass, "noise", <<"t6">>), NoErr),
    StubScanner("modifier", AnyContent,
                StubResult(VerdictModify, "clean", <<"t1">>), NoErr),
    StubScanner("strip", "bad",
                StubResult(VerdictModify, "ok", <<>>), NoErr),
    StubScanner("blocker", AnyContent,
                StubResult(VerdictBlock, "", <<"t2", "t3">>), NoErr),
    StubScanner("quiet", "bad",
                StubResult(VerdictBlock, "", <<>>), NoErr),
    StubScanner("rewriter", "bad",
                StubResult(VerdictBlock, "blocked", <<"t4", "t5">>), NoErr),
    StubScanner("broken", AnyContent,
                StubResult(VerdictPass, "", <<>>), "scanner failed"),
    StubScanner("fault", "bad",
                StubResult(VerdictPass, "", <<>>), "regex fault") }

Contents == {"ok", "bad"}

ContentItems ==
  { TextContent("ok", Nil, "downstream"),
    TextContent("bad", "audience", "downstream"),
    ImageContent }

ToolResults ==
  { [Content |-> c, IsError |-> FALSE] : c \in SeqsUpTo(ContentItems, MaxItems) }

InitPipe ==
  /\ pipeline \in {NewPipeline(s) : s \in SeqsUpTo(StubScanners, MaxStages)}
  /\ plInput \in Contents
  /\ plOut = NoProcessOutput
  /\ plCalls = <<>>
  /\ plPc = "call"
  /\ envEvents = 0
  /\ globalCfg = AllDisabled
  /\ merged = NotMerged
  /\ sanPc = "idle"
  /\ upstream = UpstreamConfig(TransportStdio)
  /\ downstream = <<>>
  /\ catalog = EmptyMap
  /\ reachable = EmptyMap
  /\ mainPc = "load"
  /\ newIdx = 1
  /\ newAttempts = <<>>
  /\ conns = EmptyMap
  /\ sess = <<>>
  /\ cancelled = FALSE
  /\ closePc = "idle"
  /\ closeReturned = FALSE
  /\ connsPc = "idle"
  /\ connsTodo = {}
  /\ connsOut = EmptyMap
  /\ hcPc = "none"
  /\ hcTodo = {}
  /\ hcName = <<>>
  /\ hcConn = NoConn
  /\ hcNew = NoConn
  /\ regPc = "done"
  /\ regSnap = EmptyMap
  /\ regTodo = {}
  /\ regTotal = 0
  /\ registered = <<>>
  /\ advertised = EmptyMap
  /\ upstreamTools = EmptyMap
  /\ swapped = EmptyMap
  /\ pxPc = "sanitize"
  /\ pxReq = NoRequest
  /\ pxCalls = <<>>
  /\ pxHandler = NoHandler
  /\ pxSession = NilSession
  /\ sessRet = NoSessionReturn
  /\ pxResult \in ToolResults
  /\ pxRet = NoReturn

NextPipe == PipelineProcess \/ ProxySanitize

SpecPipe == InitPipe /\ [][NextPipe]_vars

(***************************************************************************)
(* config.Load alone, over configurations with every kind of upstream      *)
(* transport, of up to MaxDownstreams downstream entries and with valid    *)
(* and invalid custom patterns.                                            *)
(***************************************************************************)
UpstreamTransports == {TransportStdio, TransportHTTP, "", "grpc"}

DownstreamEntry(name, transport, command, url, override) ==
  [Name |-> name, Transport |-> transport, Command |-> command, URL |-> url,
   Sanitization |-> override]

\* A stdio entry for every name, and for the name b every kind of transport
\* section and of sanitization section.
DownstreamEntries ==
  { DownstreamConfig(name) : name \in DownstreamNames } \cup
  { DownstreamEntry(<<"b">>, "", <<"cmd">>, "http://h", NilPtr),
    DownstreamEntry(<<"b">>, "grpc", <<"cmd">>, "http://h", NilPtr),
    DownstreamEntry(<<"b">>, TransportStdio, <<>>, "http://h", NilPtr),
    DownstreamEntry(<<"b">>, TransportHTTP, <<"cmd">>, "", NilPtr),
    DownstreamEntry(<<"b">>, TransportHTTP, <<>>, "http://h", NilPtr),
    DownstreamConfigWith(<<"b">>, Ptr(ConfigOf({"cus"}, TRUE, <<"cus">>))),
    DownstreamConfigWith(<<"b">>,
                         Ptr(ConfigOf({"cus"}, TRUE,
                                      <<"cus", InvalidPattern>>))) }

LoadGlobalConfigs ==
  { ConfigOf({}, TRUE, <<>>),
    ConfigOf(FieldNames, FALSE, <<"glob">>),
    ConfigOf({"inj", "cus"}, FALSE, <<InvalidPattern>>) }

InitCfg ==
  /\ PipelineIdle
  /\ upstream \in {UpstreamConfig(t) : t \in UpstreamTransports}
  /\ downstream \in SeqsUpTo(DownstreamEntries, MaxDownstreams)
  /\ catalog = [n \in ConfigNames(downstream) |-> <<>>]
  /\ reachable = [n \in ConfigNames(downstream) |-> FALSE]
  /\ globalCfg \in LoadGlobalConfigs
  /\ merged = NotMerged
  /\ sanPc = "idle"
  /\ GatewayStart

NextCfg == LoadConfig

SpecCfg == InitCfg /\ [][NextCfg]_vars

(***************************************************************************)
(* The length scanner alone: a pipeline of one LengthScanner for every     *)
(* limit up to two past the longest content, on every content of plain,    *)
(* zero-width and full-width runes.                                        *)
(***************************************************************************)
LengthLimits == 0..(MaxTextLen + 2)

LengthTexts == SeqsUpTo({PlainRune, ZeroWidthRune, FullWidthRune}, MaxTextLen)

InitLen ==
  /\ pipeline \in {NewPipeline(<<NewLengthScanner(m)>>) : m \in LengthLimits}
  /\ plInput \in LengthTexts
  /\ plOut = NoProcessOutput
  /\ plCalls = <<>>
  /\ plPc = "call"
  /\ upstream = UpstreamConfig(TransportStdio)
  /\ downstream = <<>>
  /\ catalog = EmptyMap
  /\ reachable = EmptyMap
  /\ SanitizationIdle
  /\ GatewayStart

NextLen == PipelineProcess

SpecLen == InitLen /\ [][NextLen]_vars

(***************************************************************************)
(* Concurrent calls of Process: one pipeline of the stub scanners, and     *)
(* MaxCalls calls on it, each with its own content.                        *)
(***************************************************************************)
InitConc ==
  /\ pipeline \in {NewPipeline(s) : s \in SeqsUpTo(StubScanners, MaxStages)}
  /\ plInput = "ok"
  /\ plOut = NoProcessOutput
  /\ plPc = "done"
  /\ plCalls \in [1..MaxCalls -> {ProcessCall(content) : content \in Contents}]
  /\ upstream = UpstreamConfig(TransportStdio)
  /\ downstream = <<>>
  /\ catalog = EmptyMap
  /\ reachable = EmptyMap
  /\ SanitizationIdle
  /\ GatewayStart

NextConc ==
  \E c \in 1..MaxCalls :
    ProcessEnter(c) \/ ProcessIterate(c) \/ ProcessReturn(c)

SpecConc == InitConc /\ [][NextConc]_vars

(***************************************************************************)
(* C1: after Close has returned, Conns() is empty and Session(n) is nil    *)
(* for every name n, in every later state and for every interleaving with  *)
(* a liveness check in flight.  Close does not wait for the check: a       *)
(* reconnect that connected before the cancellation installs its conn      *)
(* after the map was cleared, so TLC finds this violated.                  *)
(***************************************************************************)
C1_ClosedStaysEmpty ==
  closeReturned =>
    /\ DOMAIN Conns = {}
    /\ \A n \in ConfigNames(downstream) : Session(n) = NilSession

(***************************************************************************)
(* C2: every session Session(name) returns was produced by a successful    *)
(* handshake and, at the moment it is returned, has not been closed by the *)
(* manager.  The liveness check closes the session whose ping failed       *)
(* before it takes the map entry away, so TLC finds this violated.         *)
(***************************************************************************)
C2_SessionReturnedIsLive ==
  sessRet.session # NilSession =>
    /\ sessRet.handshaken
    /\ ~sessRet.closedByManager

(***************************************************************************)
(* C3: a proxy call that starts after a reconnect has swapped in a new     *)
(* conn for its server is forwarded on the new session, never on the       *)
(* session that existed at registration.                                   *)
(***************************************************************************)
C3_ForwardsOnSwappedSession ==
  (pxPc = "forward" /\ sessRet.swap # NilSession) =>
    /\ pxSession = sessRet.swap
    /\ pxSession # regSnap[pxHandler.serverName].Session
    /\ sess[pxSession].server = pxHandler.serverName

\* A call about to be forwarded for a server whose session was swapped
\* after discovery, on a session that answers.
C3_Witness ==
  /\ pxPc = "forward"
  /\ sessRet.swap # NilSession
  /\ pxSession = sessRet.swap
  /\ regSnap[pxHandler.serverName].Session # sessRet.swap
  /\ Answers(pxSession, pxHandler.serverName, FALSE)

(***************************************************************************)
(* C4: no two tools registered on the upstream by DiscoverAndRegister      *)
(* share a name, for every validated set of downstream names and every set *)
(* of advertised tool names.  Server a_ with tool t and server a with tool *)
(* _t both register a___t, so TLC finds this violated.                     *)
(***************************************************************************)
C4_RegisteredNamesDistinct ==
  \A i, j \in 1..Len(registered) :
    registered[i].Name = registered[j].Name => i = j

(***************************************************************************)
(* C5: every registered tool name contains exactly one occurrence of __,   *)
(* the part before it names a configured downstream and the part after it  *)
(* is a tool that downstream advertised at discovery.  A tool named t__u   *)
(* registers as a__t__u, so TLC finds this violated.                       *)
(***************************************************************************)
SepPositions(n) ==
  {i \in 1..(Len(n) - 1) : SubSeq(n, i, i + 1) = namespaceSep}

C5_RegisteredNameForm ==
  \A k \in 1..Len(registered) :
    LET n == registered[k].Name IN
    /\ Cardinality(SepPositions(n)) = 1
    /\ \A i \in SepPositions(n) :
         LET server == SubSeq(n, 1, i - 1)
             tool == SubSeq(n, i + 2, Len(n))
         IN /\ server \in ConfigNames(downstream)
            /\ server \in DOMAIN advertised
            /\ \E t \in 1..Len(advertised[server]) :
                 advertised[server][t] = tool

(***************************************************************************)
(* What the stages of a pipeline do on a given input, stated stage by      *)
(* stage: the content stage k is given, what it answers, and whether it is *)
(* executed at all (no earlier stage failed or blocked).  Stages are       *)
(* numbered from 1, so the code's stage index i is stage i + 1 here.       *)
(***************************************************************************)
RECURSIVE StageInput(_, _, _)
StageInput(scanners, content, k) ==
  IF k = 1 THEN content
  ELSE LET prev == StageInput(scanners, content, k - 1)
           out == Scan(scanners[k - 1], prev)
       IN IF out.err = NoErr /\ out.res.Verdict = VerdictModify
          THEN out.res.Content ELSE prev

StageOut(scanners, content, k) ==
  Scan(scanners[k], StageInput(scanners, content, k))

StageExecuted(scanners, content, k) ==
  \A j \in 1..(k - 1) :
    /\ StageOut(scanners, content, j).err = NoErr
    /\ StageOut(scanners, content, j).res.Verdict # VerdictBlock

StageReturns(scanners, content, k, verdict) ==
  /\ StageExecuted(scanners, content, k)
  /\ StageOut(scanners, content, k).err = NoErr
  /\ StageOut(scanners, content, k).res.Verdict = verdict

StageFails(scanners, content, k) ==
  /\ StageExecuted(scanners, content, k)
  /\ StageOut(scanners, content, k).err # NoErr

Stages == 1..Len(pipeline.scanners)

(***************************************************************************)
(* C6: if stage k is the first stage to return block, Process returns      *)
(* FinalVerdict = block, ScanResults holds exactly the results of stages   *)
(* 1..k with the blocking stage's result last, and no stage after k is     *)
(* invoked.                                                                *)
(***************************************************************************)
C6_BlockShortCircuits ==
  plPc = "done" =>
    \A k \in Stages :
      StageReturns(pipeline.scanners, plInput, k, VerdictBlock) =>
        /\ plOut.err = NoErr
        /\ plOut.result.FinalVerdict = VerdictBlock
        /\ Len(plOut.result.ScanResults) = k
        /\ plOut.result.ScanResults[k] = StageOut(pipeline.scanners, plInput, k).res
        /\ \A c \in 1..Len(plOut.calls) : plOut.calls[c].stage <= k

\* A stage blocked and a later stage exists.
C6_Witness ==
  /\ plPc = "done"
  /\ Len(pipeline.scanners) = 2
  /\ StageReturns(pipeline.scanners, plInput, 1, VerdictBlock)

(***************************************************************************)
(* C7: when no stage fails, FinalVerdict is block if some executed stage   *)
(* returned block, otherwise modify if some stage returned modify,         *)
(* otherwise pass.                                                         *)
(***************************************************************************)
C7_FinalVerdict ==
  (plPc = "done" /\ \A k \in Stages : ~StageFails(pipeline.scanners, plInput, k)) =>
    /\ plOut.err = NoErr
    /\ plOut.result.FinalVerdict =
         IF \E k \in Stages : StageReturns(pipeline.scanners, plInput, k, VerdictBlock)
         THEN VerdictBlock
         ELSE IF \E k \in Stages : StageReturns(pipeline.scanners, plInput, k, VerdictModify)
         THEN VerdictModify
         ELSE VerdictPass

\* A stage modified, a later one passed, none blocked or failed.
C7_Witness ==
  /\ plPc = "done"
  /\ Len(pipeline.scanners) = 2
  /\ StageReturns(pipeline.scanners, plInput, 1, VerdictModify)
  /\ StageReturns(pipeline.scanners, plInput, 2, VerdictPass)
  /\ plOut.result.FinalVerdict = VerdictModify

(***************************************************************************)
(* What sanitizeResult meets item by item: each text item is processed     *)
(* with its own text; item i is reached when no earlier text item failed   *)
(* or blocked.                                                             *)
(***************************************************************************)
Items == 1..Len(pxResult.Content)

ItemOut(i) == Process(pipeline, pxResult.Content[i].Text)

ItemReached(i) ==
  /\ pxResult.Content[i].type = "text"
  /\ \A j \in 1..(i - 1) :
       pxResult.Content[j].type = "text" =>
         /\ ItemOut(j).err = NoErr
         /\ ItemOut(j).result.FinalVerdict # VerdictBlock

ItemBlocks(i) ==
  /\ ItemReached(i)
  /\ ItemOut(i).err = NoErr
  /\ ItemOut(i).result.FinalVerdict = VerdictBlock

ItemFails(i) == ItemReached(i) /\ ItemOut(i).err # NoErr

ProxyReturned == pxPc = "idle" /\ pxRet # NoReturn

(***************************************************************************)
(* C8: when the pipeline blocks on a text item, the proxy call returns no  *)
(* error and a new result with exactly one text item and the error flag    *)
(* set; its text is the threats joined with "; ", or "blocked by           *)
(* sanitization" when there is none; no later item is run through the      *)
(* pipeline and no item of the downstream is in the result.                *)
(***************************************************************************)
C8_BlockReplacesResult ==
  ProxyReturned =>
    \A i \in Items :
      ItemBlocks(i) =>
        LET threats == ItemOut(i).result.AllThreats IN
        /\ pxRet.err = NoErr
        /\ pxRet.result # NilResult
        /\ pxRet.result.IsError = TRUE
        /\ Len(pxRet.result.Content) = 1
        /\ pxRet.result.Content[1].type = "text"
        /\ pxRet.result.Content[1].origin = "gateway"
        /\ pxRet.result.Content[1].Text =
             IF threats = <<>> THEN "blocked by sanitization"
             ELSE Join(threats, "; ")
        /\ \A c \in 1..Len(pxRet.processed) : pxRet.processed[c] <= i

\* The second of two text items blocked with two threats, which are joined.
C8_Witness ==
  /\ ProxyReturned
  /\ Len(pxResult.Content) = 2
  /\ pxResult.Content[1].type = "text"
  /\ ItemBlocks(2)
  /\ pxRet.result.Content[1].Text = "t4; t5"

(***************************************************************************)
(* C9: when a stage fails while a text item is processed, the proxy call   *)
(* returns that error and no result.                                       *)
(***************************************************************************)
C9_ScannerErrorFailsCall ==
  ProxyReturned =>
    \A i \in Items :
      ItemFails(i) =>
        /\ pxRet.err = ItemOut(i).err
        /\ pxRet.result = NilResult

\* The first text item was modified, the second one failed.
C9_Witness ==
  /\ ProxyReturned
  /\ Len(pxResult.Content) = 2
  /\ ItemReached(2)
  /\ ItemOut(1).result.FinalVerdict = VerdictModify
  /\ ItemFails(2)
  /\ pxRet.err = "regex fault"

(***************************************************************************)
(* C10: NewDownstreamManager succeeds if and only if at least one          *)
(* configured downstream connected.  Every downstream is attempted, a      *)
(* failed connect aborting nothing; after a successful construction        *)
(* Session(n) is non-nil exactly for the downstreams that connected; if    *)
(* none connected an error is returned and no liveness loop is started.    *)
(***************************************************************************)
ConnectedAtConstruction ==
  {newAttempts[i].name :
     i \in {j \in 1..Len(newAttempts) : newAttempts[j].err = NoErr}}

C10_ConstructionOutcome ==
  [][(mainPc = "new" /\ mainPc' # "new") =>
       /\ Len(newAttempts) = Len(downstream)
       /\ \A i \in 1..Len(downstream) :
            newAttempts[i].name = downstream[i].Name
       /\ mainPc' \in {"ready", "failed"}
       /\ (mainPc' = "ready") <=> (ConnectedAtConstruction # {})
       /\ mainPc' = "ready" =>
            /\ \A n \in ConfigNames(downstream) :
                 (Session(n)' # NilSession) <=> (n \in ConnectedAtConstruction)
            /\ hcPc' = "wait"
       /\ mainPc' = "failed" =>
            /\ hcPc' = "none"
            /\ DOMAIN conns' = {}]_vars

\* A construction that succeeded with one downstream connected and one
\* skipped.
C10_Witness ==
  /\ mainPc = "ready"
  /\ regPc = "idle"
  /\ hcPc = "wait"
  /\ \E n, m \in ConfigNames(downstream) :
       /\ n \in ConnectedAtConstruction
       /\ m \notin ConnectedAtConstruction
       /\ Session(n) # NilSession
       /\ Session(m) = NilSession

(***************************************************************************)
(* C11: if the live session of a downstream was closed out-of-band and a   *)
(* liveness check then runs, under a context that is not cancelled and     *)
(* while the downstream is reachable, the ping fails, the reconnect        *)
(* succeeds, and after the check Session(name) returns a session different *)
(* from the old one that is handshaken and not closed.                     *)
(***************************************************************************)
LiveSession(ss, id) ==
  /\ id # NilSession
  /\ ss[id].handshaken
  /\ ss[id].open
  /\ ~ss[id].closedByManager

C11_ReconnectReplacesSession ==
  [][/\ (hcPc = "ping" /\ hcPc' # "ping" /\ ~sess[hcConn.Session].open)
          => hcPc' = "connect"
     /\ (hcPc = "connect" /\ hcPc' # "connect" /\ hcConn # NoConn
           /\ reachable[hcName] /\ ~cancelled)
          => hcPc' = "install"
     /\ (hcPc = "install" /\ hcPc' # "install" /\ hcConn # NoConn)
          => \E n \in DOMAIN conns' :
               /\ n = hcName
               /\ Session(n)' # hcConn.Session
               /\ Session(n)' = hcNew.Session
               /\ LiveSession(sess', Session(n)')
               /\ sess'[Session(n)'].server = n]_vars

\* After a check: the single environment event so far closed the session
\* of n that discovery saw (n is reachable now as it was at construction),
\* and Session(n) is the new, live session.
C11_Witness ==
  /\ hcPc \in {"iter", "wait"}
  /\ envEvents = 1
  /\ \E n \in DOMAIN swapped :
       /\ n \in DOMAIN regSnap
       /\ reachable[n]
       /\ ~sess[regSnap[n].Session].open
       /\ Session(n) = swapped[n]
       /\ Session(n) # regSnap[n].Session
       /\ LiveSession(sess, Session(n))

(***************************************************************************)
(* What Process recorded: the stages it invoked with the content each was  *)
(* given (calls), and what the invoked stages answered (ScanResults).      *)
(***************************************************************************)
Invoked == 1..Len(plOut.calls)

Answered == 1..Len(plOut.result.ScanResults)

\* The modifying stages among the first k - 1 that answered.
ModifiersBefore(k) ==
  {j \in Answered :
     j < k /\ plOut.result.ScanResults[j].Verdict = VerdictModify}

Max(S) == CHOOSE x \in S : \A y \in S : y <= x

\* The content left by the stages before stage k.
ThreadedBefore(k) ==
  IF ModifiersBefore(k) = {} THEN plInput
  ELSE plOut.result.ScanResults[Max(ModifiersBefore(k))].Content

(***************************************************************************)
(* C12: each stage receives the content left by the stages before it: the  *)
(* original input until some stage modifies, thereafter the content of the *)
(* most recent modifying stage, a pass changing nothing.  For a run that   *)
(* does not block or fail, FinalContent is the content of the last         *)
(* modifying stage, or the input if none modified; an empty pipeline       *)
(* returns pass with the input unchanged.                                  *)
(***************************************************************************)
C12_ContentThreading ==
  plPc = "done" =>
    /\ \A k \in Invoked :
         /\ plOut.calls[k].stage = k
         /\ plOut.calls[k].input = ThreadedBefore(k)
    /\ (plOut.err = NoErr /\ plOut.result.FinalVerdict # VerdictBlock) =>
         /\ Len(plOut.result.ScanResults) = Len(pipeline.scanners)
         /\ plOut.result.FinalContent =
              ThreadedBefore(Len(pipeline.scanners) + 1)
    /\ pipeline.scanners = <<>> =>
         /\ plOut.err = NoErr
         /\ plOut.result.FinalVerdict = VerdictPass
         /\ plOut.result.FinalContent = plInput

\* A modifying stage followed by a stage that passes while returning other
\* content: the second stage is given the modified content, which is also
\* the final content.
C12_Witness ==
  /\ plPc = "done"
  /\ Len(pipeline.scanners) = 2
  /\ plOut.err = NoErr
  /\ Len(plOut.result.ScanResults) = 2
  /\ plOut.result.ScanResults[1].Verdict = VerdictModify
  /\ plOut.result.ScanResults[1].Content # plInput
  /\ plOut.result.ScanResults[2].Verdict = VerdictPass
  /\ plOut.result.ScanResults[2].Content # plOut.result.ScanResults[1].Content
  /\ plOut.calls[2].input = plOut.result.ScanResults[1].Content
  /\ plOut.result.FinalContent = plOut.result.ScanResults[1].Content

(***************************************************************************)
(* C13: AllThreats is the concatenation, in stage order, of the Threats of *)
(* every stage that was executed and answered, the blocking stage          *)
(* included, and of no stage that was not executed.                        *)
(***************************************************************************)
RECURSIVE ThreatsThrough(_, _, _)
ThreatsThrough(scanners, content, k) ==
  IF k = 0 THEN <<>>
  ELSE ThreatsThrough(scanners, content, k - 1) \o
       (IF StageExecuted(scanners, content, k)
           /\ StageOut(scanners, content, k).err = NoErr
        THEN StageOut(scanners, content, k).res.Threats
        ELSE <<>>)

C13_ThreatsConcatenated ==
  plPc = "done" =>
    plOut.result.AllThreats =
      ThreatsThrough(pipeline.scanners, plInput, Len(pipeline.scanners))

\* A modifying stage with one threat, then a blocking stage with two.
C13_Witness ==
  /\ plPc = "done"
  /\ Len(pipeline.scanners) = 2
  /\ StageReturns(pipeline.scanners, plInput, 1, VerdictModify)
  /\ StageReturns(pipeline.scanners, plInput, 2, VerdictBlock)
  /\ Len(StageOut(pipeline.scanners, plInput, 1).res.Threats) = 1
  /\ Len(StageOut(pipeline.scanners, plInput, 2).res.Threats) = 2
  /\ plOut.result.AllThreats =
       StageOut(pipeline.scanners, plInput, 1).res.Threats
         \o StageOut(pipeline.scanners, plInput, 2).res.Threats

(***************************************************************************)
(* C14: for every pipeline and input, when Process returns FinalVerdict =  *)
(* block, FinalContent is the content that was presented to the first      *)
(* blocking stage.  Process stores the blocking stage's own Content, which *)
(* the Scanner interface does not tie to the input, so TLC finds this      *)
(* violated by a blocking scanner that returns other content.              *)
(***************************************************************************)
C14_BlockedContentIsStageInput ==
  (plPc = "done" /\ plOut.err = NoErr
     /\ plOut.result.FinalVerdict = VerdictBlock) =>
    \A k \in Stages :
      StageReturns(pipeline.scanners, plInput, k, VerdictBlock) =>
        /\ plOut.calls[k].input = StageInput(pipeline.scanners, plInput, k)
        /\ plOut.result.FinalContent = plOut.calls[k].input

(***************************************************************************)
(* C15: if a stage's Scan returns an error, Process returns that same      *)
(* error unwrapped, no later stage is invoked, and the failing stage       *)
(* contributes nothing to ScanResults or AllThreats.                       *)
(***************************************************************************)
C15_ScanErrorPropagates ==
  plPc = "done" =>
    \A k \in Stages :
      StageFails(pipeline.scanners, plInput, k) =>
        /\ plOut.err = pipeline.scanners[k].err
        /\ Len(plOut.calls) = k
        /\ Len(plOut.result.ScanResults) = k - 1
        /\ \A j \in 1..(k - 1) :
             plOut.result.ScanResults[j] =
               StageOut(pipeline.scanners, plInput, j).res
        /\ plOut.result.AllThreats =
             ThreatsThrough(pipeline.scanners, plInput, k - 1)

\* A stage with a threat, then a stage that fails: one result, one threat,
\* and the scanner's own error.
C15_Witness ==
  /\ plPc = "done"
  /\ Len(pipeline.scanners) = 2
  /\ StageReturns(pipeline.scanners, plInput, 1, VerdictModify)
  /\ StageFails(pipeline.scanners, plInput, 2)
  /\ plOut.err = "scanner failed"
  /\ Len(plOut.result.ScanResults) = 1
  /\ plOut.result.AllThreats = <<"t1">>


(***************************************************************************)
(* Sanitization claims.  IsOn tells a toggle that is present and true,     *)
(* HasLength a limit that is present and positive; Clean is stated on the  *)
(* runes of the text and the fields of the configuration, not on Process.  *)
(***************************************************************************)
IsOn(b) == b = Ptr(TRUE)

HasLength(cfg) == cfg.MaxResponseChars # NilPtr /\ cfg.MaxResponseChars[1] > 0

Has(content, r) == \E i \in 1..Len(content) : content[i] = r

TargetedPatterns(cfg) ==
  (IF IsOn(cfg.DisableBuiltInPatterns) THEN {} ELSE {"[INST]"})
    \cup {cfg.CustomInjectionPatterns[i] :
            i \in 1..Len(cfg.CustomInjectionPatterns)}

Clean(cfg, content) ==
  /\ IsOn(cfg.EnableInvisibleTextRemoval) =>
       ~Has(content, ZeroWidthRune) /\ ~Has(content, FullWidthRune)
  /\ HasLength(cfg) => Len(content) <= cfg.MaxResponseChars[1]
  /\ IsOn(cfg.EnablePromptInjectionDetection) =>
       \A pat \in TargetedPatterns(cfg) : ~Has(content, pat)
  /\ IsOn(cfg.EnableSystemOverrideDetection) =>
       ~Has(content, "pretend to be")
  /\ IsOn(cfg.EnableURLValidation) =>
       ~Has(content, DangerousScheme) /\ ~Has(content, ExfilURL)

\* C16: for a pipeline built with boundary injection disabled and any
\* combination of the other stages, and a text that no enabled stage
\* targets (no targeted pattern, within the length limit, already
\* normalized), Process returns the verdict pass and the text itself, and
\* processing that output again returns the same result.
C16_CleanInputPasses ==
  (sanPc = "done" /\ ~IsOn(merged.EnableBoundaryInjection)
                  /\ Clean(merged, plInput))
    => /\ plOut.err = NoErr
       /\ plOut.result.FinalVerdict = VerdictPass
       /\ plOut.result.FinalContent = plInput
       /\ Process(pipeline, plOut.result.FinalContent).result = plOut.result

\* A clean text of exactly the limit's length through all five stages.
C16_Witness ==
  /\ sanPc = "done"
  /\ ~IsOn(merged.EnableBoundaryInjection)
  /\ Clean(merged, plInput)
  /\ Len(pipeline.scanners) = 5
  /\ Len(plInput) = merged.MaxResponseChars[1]
  /\ plOut.result.FinalVerdict = VerdictPass


StageOrder ==
  <<"unicode", "length", "injection", "override", "url", "boundary">>

StageEnabled(cfg, stage) ==
  IF stage = "unicode" THEN IsOn(cfg.EnableInvisibleTextRemoval)
  ELSE IF stage = "length" THEN HasLength(cfg)
  ELSE IF stage = "injection" THEN IsOn(cfg.EnablePromptInjectionDetection)
  ELSE IF stage = "override" THEN IsOn(cfg.EnableSystemOverrideDetection)
  ELSE IF stage = "url" THEN IsOn(cfg.EnableURLValidation)
  ELSE IsOn(cfg.EnableBoundaryInjection)

StageNames(p) == [i \in 1..Len(p.scanners) |-> p.scanners[i].name]

\* C17: the stages of the pipeline BuildPipeline returns for a merged
\* configuration are exactly the enabled ones, in the relative order
\* unicode, length, injection, override, url, boundary; an absent or false
\* toggle omits its stage, and the length stage is there if and only if
\* maxResponseChars is present and greater than 0.
C17_StagesAreEnabledInOrder ==
  sanPc \in {"built", "done"}
    => StageNames(pipeline)
         = SelectSeq(StageOrder, LAMBDA st : StageEnabled(merged, st))

\* A pipeline built from a configuration with an absent toggle, a false
\* toggle and the limit 0.
C17_Witness ==
  /\ sanPc = "built"
  /\ merged.EnableURLValidation = NilPtr
  /\ merged.EnablePromptInjectionDetection = Ptr(FALSE)
  /\ merged.MaxResponseChars = Ptr(0)
  /\ StageNames(pipeline) = <<"unicode", "boundary">>


\* The envelope around a content, for a server name without characters
\* to escape.
Envelope(server, content) ==
  <<"<external_tool_response source=\"" \o server \o "\">", "\n">>
    \o content
    \o <<"\n", "</external_tool_response>">>

\* What the stages before the last one make of a text.
BeforeLast(p, text) ==
  Process(NewPipeline(SubSeq(p.scanners, 1, Len(p.scanners) - 1)), text)

NotBlocked(ret) == ret.err = NoErr /\ ~ret.result.IsError

\* C18: with boundary injection enabled for a downstream, every text item
\* of a proxy result that is not blocked is the opening tag naming the
\* server, a newline, the content the preceding stages produced, a newline
\* and the closing tag; the boundary stage is the last stage and runs once
\* per item, and the pipeline verdict of such an item is never pass.
C18_BoundaryEnvelope ==
  (sanPc = "done" /\ IsOn(merged.EnableBoundaryInjection))
    => /\ StageNames(pipeline)[Len(pipeline.scanners)] = "boundary"
       /\ \A k \in 1..(Len(pipeline.scanners) - 1) :
            StageNames(pipeline)[k] # "boundary"
       /\ plOut.result.FinalVerdict # VerdictPass
       /\ NotBlocked(pxRet) =>
            /\ Len(pxRet.result.Content) = Len(pxResult.Content)
            /\ Cardinality({c \in 1..Len(plOut.calls) :
                  plOut.calls[c].stage = Len(pipeline.scanners)}) = 1
            /\ \A i \in 1..Len(pxResult.Content) :
                 IF pxResult.Content[i].type = "text"
                 THEN pxRet.result.Content[i].Text =
                        Envelope(Join(downstream[1].Name, ""),
                                 BeforeLast(pipeline, pxResult.Content[i].Text)
                                   .result.FinalContent)
                 ELSE pxRet.result.Content[i] = pxResult.Content[i]

\* A result that is not blocked, whose text a preceding stage changed and
\* the boundary stage wrapped.
C18_Witness ==
  /\ sanPc = "done"
  /\ IsOn(merged.EnableBoundaryInjection)
  /\ Len(pipeline.scanners) >= 3
  /\ NotBlocked(pxRet)
  /\ BeforeLast(pipeline, plInput).result.FinalContent # plInput
  /\ plInput # <<>>
  /\ pxRet.result.Content[1].Text[1] = "<external_tool_response source=\"s\">"
  /\ pxRet.result.Content[3].Text = pxRet.result.Content[1].Text


ScalarFields ==
  { "MaxResponseChars", "EnablePromptInjectionDetection",
    "EnableInvisibleTextRemoval", "EnableURLValidation",
    "EnableBoundaryInjection", "EnableSystemOverrideDetection",
    "DisableBuiltInPatterns" }

\* C19: the merge law.  Merging with no override gives the global
\* configuration; each scalar field of the merge is the override's when
\* the override has it and the global's when it has not; the custom
\* patterns are the override's when that list is not empty and the
\* global's when it is; and the merge changes neither argument.
C19_MergeLaw ==
  [][(sanPc = "start" /\ sanPc' # "start") =>
       LET o == downstream[1].Sanitization IN
       /\ globalCfg' = globalCfg
       /\ downstream' = downstream
       /\ o = NilPtr => merged' = globalCfg
       /\ o # NilPtr =>
            /\ \A f \in ScalarFields :
                 /\ o[1][f] # NilPtr => merged'[f] = o[1][f]
                 /\ o[1][f] = NilPtr => merged'[f] = globalCfg[f]
            /\ o[1].CustomInjectionPatterns # <<>> =>
                 merged'.CustomInjectionPatterns = o[1].CustomInjectionPatterns
            /\ o[1].CustomInjectionPatterns = <<>> =>
                 merged'.CustomInjectionPatterns
                   = globalCfg.CustomInjectionPatterns]_vars

\* A merge in which the override sets one toggle against the global value,
\* leaves another to the global one and replaces the global patterns.
C19_Witness ==
  /\ sanPc = "built"
  /\ downstream[1].Sanitization # NilPtr
  /\ globalCfg.EnableBoundaryInjection = Ptr(TRUE)
  /\ merged.EnableBoundaryInjection = Ptr(FALSE)
  /\ downstream[1].Sanitization[1].EnableURLValidation = NilPtr
  /\ merged.EnableURLValidation = Ptr(TRUE)
  /\ globalCfg.CustomInjectionPatterns = <<"glob">>
  /\ merged.CustomInjectionPatterns = <<"cus">>


Texts(result) ==
  [i \in 1..Len(result.Content) |-> result.Content[i].Text]

\* C20: a proxy call of the upstream tool server__tool goes out as one
\* CallTool on a session of that server and of no other, carrying the
\* name tool without the namespace and the caller's arguments as they
\* came; no further CallTool follows it, and with every sanitization stage
\* disabled the text returned upstream is the text the downstream
\* returned.
C20_ForwardsUnderOriginalName ==
  [][/\ (pxPc = "forward" /\ pxPc' # "forward") =>
          \E server \in DOMAIN catalog :
            \E i \in 1..Len(catalog[server]) :
              /\ pxReq.Name = NamespacedName(server, catalog[server][i])
              /\ Len(pxCalls') = 1
              /\ pxCalls'[1].params =
                   [Name |-> catalog[server][i],
                    Arguments |-> pxReq.Arguments]
              /\ sess[pxCalls'[1].session].server = server
              /\ pxReq' = pxReq
     /\ (pxPc = "await" /\ pxPc' # "await") =>
          /\ pxCalls' = <<>>
          /\ (pxHandler.pipeline.scanners = <<>> /\ pxRet'.err = NoErr) =>
               /\ ~pxRet'.result.IsError
               /\ Texts(pxRet'.result) = Texts(DownstreamAnswer)]_vars

\* A call that came back with the downstream's text while both servers
\* were connected.
C20_Witness ==
  /\ pxPc = "idle"
  /\ pxCalls = <<>>
  /\ pxRet.err = NoErr
  /\ pxRet.result # NilResult
  /\ Texts(pxRet.result) = <<"ok">>
  /\ DOMAIN conns = ConfigNames(downstream)
  /\ \A n \in DOMAIN conns : sess[conns[n].Session].open


\* C21: when the downstream CallTool fails, the proxy call fails with the
\* downstream's error itself, neither altered nor wrapped, the pipeline is
\* not run and no result is returned.  The handler returns the error
\* wrapped in "downstream call <name>: ", so TLC finds this violated.
C21_DownstreamErrorVerbatim ==
  [][(pxPc = "await" /\ pxPc' # "await"
        /\ ~Answers(pxSession, pxHandler.serverName, FALSE))
       => /\ pxRet'.err = DownstreamError
          /\ pxRet'.result = NilResult
          /\ pxRet'.processed = <<>>]_vars


\* C22: when the manager has no session for the handler's server at call
\* time, the proxy call fails with "downstream <name> not connected",
\* makes no downstream call and runs no pipeline stage.
C22_NotConnected ==
  [][(pxPc = "idle" /\ sessRet' # sessRet /\ sessRet'.name \notin DOMAIN conns)
       => /\ \E n \in DOMAIN upstreamTools :
               upstreamTools[n].serverName = sessRet'.name
          /\ pxRet'.err = "downstream " \o Join(sessRet'.name, "")
                             \o " not connected"
          /\ pxRet'.result = NilResult
          /\ pxRet'.processed = <<>>
          /\ pxCalls' = <<>>
          /\ pxPc' = "idle"]_vars

\* A call for server a returned the failure while a was out of the
\* manager's map and b was in it.
C22_Witness ==
  /\ pxPc = "idle"
  /\ pxRet.err = "downstream a not connected"
  /\ sessRet.name = <<"a">>
  /\ sessRet.session = NilSession
  /\ <<"a">> \notin DOMAIN conns
  /\ <<"b">> \in DOMAIN conns


\* C23: a proxy result that is not blocked has as many content items as
\* the downstream's, in the same order: an item that is not text is the
\* downstream's, a text item whose verdict is pass is the downstream's,
\* and a text item whose verdict is modify has FinalContent for its text
\* and the annotations it had.
C23_ItemsKeptInPlace ==
  (ProxyReturned /\ \A i \in Items : ~ItemBlocks(i) /\ ~ItemFails(i)) =>
    /\ pxRet.err = NoErr
    /\ Len(pxRet.result.Content) = Len(pxResult.Content)
    /\ \A i \in Items :
         LET before == pxResult.Content[i]
             after == pxRet.result.Content[i]
         IN IF before.type # "text" THEN after = before
            ELSE IF ItemOut(i).result.FinalVerdict = VerdictPass
            THEN after = before
            ELSE /\ ItemOut(i).result.FinalVerdict = VerdictModify
                 /\ after.type = "text"
                 /\ after.Text = ItemOut(i).result.FinalContent
                 /\ after.Annotations = before.Annotations

\* An annotated text item that was modified, followed by an image.
C23_Witness ==
  /\ ProxyReturned
  /\ \A i \in Items : ~ItemBlocks(i) /\ ~ItemFails(i)
  /\ Len(pxResult.Content) = 2
  /\ pxResult.Content[1].type = "text"
  /\ pxResult.Content[1].Annotations = "audience"
  /\ ItemOut(1).result.FinalVerdict = VerdictModify
  /\ pxRet.result.Content[1].Text # pxResult.Content[1].Text
  /\ pxRet.result.Content[1].Annotations = "audience"
  /\ pxRet.result.Content[2] = ImageContent


\* The names s__t for the servers of the snapshot and the tools they
\* advertise.
SnapshotToolNames ==
  UNION { { NamespacedName(srv, catalog[srv][i]) :
              i \in 1..Len(catalog[srv]) } : srv \in DOMAIN regSnap }

\* C24: when DiscoverAndRegister succeeds, the names of the tools on the
\* upstream are exactly the names s__t for s a downstream of the
\* manager's snapshot and t a tool s advertised, and the count returned is
\* the number of tools registered.  Two pairs (s, t) with the same s__t
\* leave one tool on the upstream and count twice, so TLC finds this
\* violated.
C24_RegisteredSetAndCount ==
  regPc = "done" =>
    /\ DOMAIN upstreamTools = SnapshotToolNames
    /\ regTotal = Cardinality(DOMAIN upstreamTools)

\* What makes the iteration for a downstream of the snapshot fail: the
\* pipeline of its merged configuration does not build, or its session does
\* not answer the listing.
BuildFails(name) ==
  LET m == Merge(globalCfg, regSnap[name].Config.Sanitization)
  IN /\ IsOn(m.EnablePromptInjectionDetection)
     /\ \E i \in 1..Len(m.CustomInjectionPatterns) :
          m.CustomInjectionPatterns[i] = InvalidPattern

ListingFails(name) ==
  ~reachable[name] \/ ~sess[regSnap[name].Session].open

\* C25: DiscoverAndRegister fails when the loop ends with a total of zero
\* tools, and a downstream whose pipeline does not build or whose tools
\* cannot be listed is never passed over: the iteration that meets it ends
\* discovery with an error and leaves the remaining downstreams
\* unprocessed.  Discovery fails for no other reason, once failed nothing
\* more is processed or registered, Gateway.Run returns the error, and
\* upstream.Run is invoked only after a discovery that succeeded.
C25_DiscoveryFailureAborts ==
  [][/\ (regPc = "iter" /\ regPc' # "iter" /\ regTodo = {} /\ regTotal = 0)
          => regPc' = "failed"
     /\ (regPc = "iter" /\ regTodo' # regTodo)
          => \E name \in regTodo :
               /\ regTodo' = regTodo \ {name}
               /\ ~BuildFails(name) /\ ~ListingFails(name)
               /\ regPc' = "iter"
     /\ (regPc = "iter" /\ regPc' = "failed")
          => /\ regTodo' = regTodo
             /\ upstreamTools' = upstreamTools
             /\ \/ regTodo = {} /\ regTotal = 0
                \/ \E name \in regTodo :
                     BuildFails(name) \/ ListingFails(name)
             /\ mainPc' = "regerr"
     /\ regPc = "failed"
          => /\ regPc' = "failed" /\ regTodo' = regTodo
             /\ upstreamTools' = upstreamTools /\ registered' = registered
             /\ mainPc = "regerr" /\ mainPc' = "regerr"
     /\ mainPc' = "serving"
          => regPc' = "done" /\ regTotal' > 0 /\ regTodo' = {}]_vars

\* Discovery failed on a pipeline that does not build while both
\* downstreams of the snapshot were still to be processed.
C25_Witness ==
  /\ regPc = "failed"
  /\ mainPc = "regerr"
  /\ Cardinality(regTodo) = 2
  /\ \A name \in regTodo : BuildFails(name) /\ ~ListingFails(name)
  /\ upstreamTools = EmptyMap

\* C26: once DiscoverAndRegister has returned, with or without an error, it
\* stays returned and no step adds, removes or replaces a tool of the
\* upstream or calls AddTool: not a proxy call, a liveness check, a
\* reconnect, the removal of a downstream or Close.
C26_ToolsFixedAfterDiscovery ==
  [][(regPc = "done" \/ regPc = "failed")
       => (/\ regPc' = regPc
           /\ upstreamTools' = upstreamTools
           /\ registered' = registered)]_vars

\* After a discovery that registered b's tool alone, a has connected and b
\* has been removed: the upstream still has b's tool and none of a.
C26_Witness ==
  /\ regPc = "done"
  /\ DOMAIN regSnap = {<<"b">>}
  /\ DOMAIN conns = {<<"a">>}
  /\ sess[conns[<<"a">>].Session].open
  /\ DOMAIN upstreamTools = {NamespacedName(<<"b">>, <<"t">>)}
  /\ closePc = "idle" /\ ~closeReturned

\* C27: a call of Close made after a call of Close has returned changes
\* nothing: at each of its two steps the map is empty and stays empty, no
\* session is closed or otherwise changed, and the context stays cancelled.
C27_CloseIdempotent ==
  [][(closeReturned /\ closePc' # closePc)
       => (/\ conns = EmptyMap /\ conns' = EmptyMap
           /\ sess' = sess
           /\ cancelled /\ cancelled')]_vars

\* C28: the map Conns returns is the manager's map of the instant of the
\* return, which is the map of every instant since Conns took the read
\* lock; a step that changes the manager's map (reconnect, removal, Close)
\* leaves a returned map as it is, and a step in which the caller edits the
\* returned map leaves the manager's map as it is.
C28_ConnsIsAtomicCopy ==
  [][/\ (connsPc = "copy" /\ connsPc' = "returned")
          => (connsOut' = conns /\ conns' = conns)
     /\ connsPc = "copy" => conns' = conns
     /\ (connsPc = "returned" /\ conns' # conns) => connsOut' = connsOut
     /\ (connsPc = "returned" /\ connsOut' # connsOut /\ connsPc' = "returned")
          => conns' = conns]_vars

\* Conns returned both connections; since then b was removed from the
\* manager's map and the caller deleted a from its own: the returned map
\* still has b and the manager's still has a.
C28_Witness ==
  /\ connsPc = "returned"
  /\ DOMAIN connsOut = {<<"b">>}
  /\ DOMAIN conns = {<<"a">>}
  /\ connsTodo = {}
  /\ ~closeReturned

\* C29: whatever the interleaving of the calls of Process running on one
\* pipeline, every call returns the result and the error Process returns
\* when run alone on that call's content; a step of one call changes no
\* other call's position, locals or returned value, and no step changes
\* the pipeline.
C29_ConcurrentProcess ==
  [][/\ pipeline' = pipeline
     /\ \A c \in DOMAIN plCalls :
          /\ plCalls'[c].pc = "done"
               => /\ plCalls'[c].ret.result =
                       Process(pipeline, plCalls[c].content).result
                  /\ plCalls'[c].ret.err =
                       Process(pipeline, plCalls[c].content).err
          /\ plCalls'[c] # plCalls[c]
               => \A d \in DOMAIN plCalls \ {c} : plCalls'[d] = plCalls[d]
          /\ plCalls'[c].content = plCalls[c].content]_vars

\* Two calls on a pipeline of two content-dependent stages have returned:
\* the first, on "bad", was modified and the second, on "ok", passed.
C29_Witness ==
  /\ Len(pipeline.scanners) = 2
  /\ pipeline.scanners[1].name = "strip"
  /\ pipeline.scanners[2].name = "noisy"
  /\ plCalls[1].pc = "done" /\ plCalls[2].pc = "done"
  /\ plCalls[1].content = "bad" /\ plCalls[2].content = "ok"
  /\ plCalls[1].ret.result.FinalVerdict = VerdictModify
  /\ plCalls[2].ret.result.FinalVerdict = VerdictPass
  /\ plCalls[1].ret.result.AllThreats = plCalls[2].ret.result.AllThreats

\* The defects of a configuration as config.Load validates it, after the
\* defaults: an upstream transport that is set and unknown, an empty
\* downstream list, and per downstream a duplicate name, a name off the
\* pattern or with the separator, a transport other than stdio and http,
\* stdio without command, http without url; and a custom pattern, global
\* or of a downstream, that is not a regular expression.
HasInvalidPattern(san) ==
  \E i \in 1..Len(san.CustomInjectionPatterns) :
    san.CustomInjectionPatterns[i] = InvalidPattern

NamesAreSound(ds) ==
  /\ \A i, j \in 1..Len(ds) : i # j => ds[i].Name # ds[j].Name
  /\ \A i \in 1..Len(ds) :
       /\ ds[i].Name # <<>>
       /\ ds[i].Name[1] \in AlnumChars
       /\ \A k \in 1..Len(ds[i].Name) :
            ds[i].Name[k] \in AlnumChars \cup {"_", "-"}
       /\ \A k \in 1..(Len(ds[i].Name) - 1) :
            ~(ds[i].Name[k] = "_" /\ ds[i].Name[k + 1] = "_")

Defective(up, ds, san) ==
  \/ up.Transport \notin {"stdio", "http", ""}
  \/ Len(ds) = 0
  \/ ~NamesAreSound(ds)
  \/ \E i \in 1..Len(ds) :
       \/ ds[i].Transport \notin {"stdio", "http"}
       \/ ds[i].Transport = "stdio" /\ ds[i].Command = <<>>
       \/ ds[i].Transport = "http" /\ ds[i].URL = ""
       \/ ds[i].Sanitization # NilPtr
            /\ HasInvalidPattern(ds[i].Sanitization[1])
  \/ HasInvalidPattern(san)

\* C30: Load rejects every configuration that has one of the defects, and
\* in every configuration it accepts the downstream names are pairwise
\* distinct, match the pattern and do not contain the separator.
C30_LoadRejectsDefects ==
  [][(mainPc = "load" /\ mainPc' # "load")
       => (/\ Defective(upstream, downstream, globalCfg)
                => mainPc' = "cfgerr"
           /\ mainPc' # "cfgerr"
                => (mainPc' = "new" /\ NamesAreSound(downstream')))]_vars

\* A configuration was rejected whose only defect is the invalid custom
\* pattern of its second downstream.
C30_Witness ==
  /\ mainPc = "cfgerr"
  /\ Len(downstream) = 2
  /\ NamesAreSound(downstream)
  /\ upstream.Transport = "http"
  /\ ~HasInvalidPattern(globalCfg)
  /\ \A i \in 1..2 : downstream[i].Transport = "stdio"
                       /\ downstream[i].Command # <<>>
  /\ downstream[1].Sanitization = NilPtr
  /\ downstream[2].Sanitization # NilPtr
  /\ HasInvalidPattern(downstream[2].Sanitization[1])

\* C31: the length scanner passes a content unchanged exactly when it has
\* at most MaxChars code points, however many bytes they take; a longer
\* content is modified to its first MaxChars code points followed by the
\* newline and the marker, with the one threat of the exceeded limit.
C31_LengthScan ==
  plPc = "done" =>
    LET sr == plOut.result.ScanResults[1]
        maxChars == pipeline.scanners[1].MaxChars
    IN /\ plOut.err = NoErr
       /\ Len(plOut.result.ScanResults) = 1
       /\ (sr.Verdict = VerdictPass) <=> (Len(plInput) <= maxChars)
       /\ sr.Verdict = VerdictPass => (sr.Content = plInput /\ sr.Threats = <<>>)
       /\ Len(plInput) > maxChars =>
            /\ sr.Verdict = VerdictModify
            /\ Len(sr.Content) = maxChars + 2
            /\ \A i \in 1..maxChars : sr.Content[i] = plInput[i]
            /\ sr.Content[maxChars + 1] = "\n"
            /\ sr.Content[maxChars + 2] = "[truncated]"
            /\ sr.Threats = <<"response exceeded character limit">>

\* A content of a full-width and a zero-width rune was cut to its first
\* code point under the limit 1.
C31_Witness ==
  /\ plPc = "done"
  /\ pipeline.scanners = <<NewLengthScanner(1)>>
  /\ plInput = <<FullWidthRune, ZeroWidthRune>>
  /\ plOut.result.FinalVerdict = VerdictModify
  /\ plOut.result.FinalContent = <<FullWidthRune, "\n", "[truncated]">>

\* The sessions of the conns in a map.
SessionsOf(c) == {c[k].Session : k \in DOMAIN c}

\* C32: the step in which Close closes sessions closes the sessions of the
\* map and takes every one of them out of the map; a step that puts a
\* conn into the map puts in one whose session the manager has never
\* closed; and Session(name) returns the session the map holds for the
\* name, or nil.  So a Session call that returns after Close began to
\* close returns nil or a session Close did not close.
C32_SessionNotClosedByClose ==
  [][/\ (closePc = "cancelled" /\ closePc' = "idle")
          => (/\ SessionsOf(conns') \cap SessionsOf(conns) = {}
              /\ \A i \in SessionsOf(conns) : sess'[i].closedByManager
              /\ \A i \in 1..Len(sess) :
                   i \notin SessionsOf(conns) => sess'[i] = sess[i])
     /\ \A i \in SessionsOf(conns') \ SessionsOf(conns) :
          ~sess'[i].closedByManager
     /\ sessRet' # sessRet
          => sessRet'.session =
               (IF sessRet'.name \in DOMAIN conns
                THEN conns[sessRet'.name].Session ELSE NilSession)]_vars

\* After Close returned, a reconnect that was in flight put a in the map
\* again, and Session(a) returned its session: a session Close did not
\* close, while the one Close closed is out of the map.
C32_Witness ==
  /\ closeReturned
  /\ sessRet.name = <<"a">>
  /\ sessRet.session # NilSession
  /\ <<"a">> \in DOMAIN conns
  /\ conns[<<"a">>].Session = sessRet.session
  /\ \E i \in 1..Len(sess) : sess[i].closedByManager /\ sess[i].server = <<"a">>

\* A conn with its name, its spec and the session of a completed handshake
\* with that server.
FullyBuilt(c, ss) ==
  /\ c.Name \in ConfigNames(downstream)
  /\ c.Config = cfgByName(downstream)[c.Name]
  /\ c.Session \in 1..Len(ss)
  /\ ss[c.Session].handshaken
  /\ ss[c.Session].server = c.Name

\* C33: a reconnect changes the entry of one name in one step, from the old
\* conn (or none) to the conn dm.connect returned, and leaves the other
\* entries alone; every conn in the map before or after any step is fully
\* built; an entry that keeps its session keeps all its fields; and a
\* Session call and the snapshot of Conns return what the map holds at
\* that step.
C33_AtomicSwap ==
  [][/\ \A k \in DOMAIN conns : FullyBuilt(conns[k], sess)
     /\ \A k \in DOMAIN conns' : FullyBuilt(conns'[k], sess')
     /\ (hcPc = "install" /\ hcPc' # "install")
          => (/\ conns'[hcName] = hcNew
              /\ DOMAIN conns' = DOMAIN conns \cup {hcName}
              /\ \A k \in DOMAIN conns \ {hcName} : conns'[k] = conns[k])
     /\ \A k \in DOMAIN conns \cap DOMAIN conns' :
          conns'[k].Session = conns[k].Session => conns'[k] = conns[k]
     /\ sessRet' # sessRet
          => sessRet'.session =
               (IF sessRet'.name \in DOMAIN conns
                THEN conns[sessRet'.name].Session ELSE NilSession)
     /\ regSnap' # regSnap => regSnap' = conns]_vars

\* A reconnect replaced a's conn after discovery and a Session call has
\* returned the new conn's session, another session than the snapshot's.
C33_Witness ==
  /\ regPc = "done"
  /\ <<"a">> \in DOMAIN regSnap
  /\ <<"a">> \in DOMAIN conns
  /\ conns[<<"a">>].Session # regSnap[<<"a">>].Session
  /\ sessRet.name = <<"a">>
  /\ sessRet.session = conns[<<"a">>].Session
  /\ sess[regSnap[<<"a">>].Session].closedByManager
  /\ ~closeReturned /\ closePc = "idle"

\* The liveness check has closed the session of name after a failed ping
\* and has neither swapped in a new conn nor removed the entry.
ReconnectInFlight(name) ==
  /\ hcPc \in {"connect", "install", "delete"}
  /\ hcName = name
  /\ hcConn # NoConn

\* C34: a proxy call whose handler looks up the session of a downstream
\* while a reconnect for it is in flight ends at the lookup with the error
\* "downstream <name> not connected" and forwards nothing.
C34_NotConnectedDuringReconnect ==
  [][(/\ pxPc = "idle"
      /\ (pxPc' = "forward" \/ sessRet' # sessRet)
      /\ ReconnectInFlight(sessRet'.name))
       => (/\ pxPc' = "idle"
           /\ pxRet'.err =
                "downstream " \o Join(sessRet'.name, "") \o " not connected"
           /\ pxRet'.result = NilResult)]_vars

\* The entry of name k is the same in the maps c and d.
SameEntry(c, d, k) ==
  /\ k \in DOMAIN c <=> k \in DOMAIN d
  /\ k \in DOMAIN c => d[k] = c[k]

\* C35: in a liveness check, a successful ping leaves the entry as it is
\* and goes on to the next name without a reconnect; a reconnect after a
\* failed ping is attempted only once the old session is closed; a failed
\* reconnect leads to the removal, after which the name has no entry, and
\* once the manager is constructed no step but the swap of that name adds
\* an entry; the steps of the check leave the entries and the sessions of
\* the other names as they are.
C35_CheckPerName ==
  [][/\ (hcPc = "ping" /\ hcPc' # "ping")
          => IF sess[hcConn.Session].open /\ reachable[hcName] /\ ~cancelled
             THEN hcPc' = "iter" /\ conns' = conns /\ sess' = sess
             ELSE /\ hcPc' = "connect"
                  /\ ~sess'[hcConn.Session].open
                  /\ sess'[hcConn.Session].closedByManager
     /\ (hcPc = "connect" /\ hcConn # NoConn)
          => sess[hcConn.Session].closedByManager
     /\ (hcPc = "connect" /\ hcPc' # "connect")
          => IF reachable[hcName] /\ ~cancelled
             THEN hcPc' = "install"
             ELSE hcPc' = "delete"
     /\ (hcPc = "delete" /\ hcPc' # "delete")
          => hcName \notin DOMAIN conns'
     /\ mainPc # "new"
          => \A k \in DOMAIN conns' \ DOMAIN conns :
               hcPc = "install" /\ k = hcName
     /\ hcPc' # hcPc
          => /\ \A k \in ConfigNames(downstream) \ {hcName} :
                  SameEntry(conns, conns', k)
             /\ \A i \in 1..Len(sess) :
                  sess'[i] # sess[i] => (hcConn # NoConn /\ i = hcConn.Session)]_vars

\* A reconnect after a failed ping has failed: the stale entry of the name
\* is about to be removed while another name has its entry.
C35_Witness ==
  /\ hcPc = "delete"
  /\ hcConn # NoConn
  /\ hcName \in DOMAIN conns
  /\ sess[hcConn.Session].closedByManager
  /\ \E k \in DOMAIN conns : k # hcName

\* The manager is constructed and not closed, and name has no entry.
Missing(name) ==
  /\ hcPc # "none"
  /\ ~cancelled
  /\ name \notin DOMAIN conns

\* Session(name) returns a session that is open.
Live(name) ==
  /\ name \in DOMAIN conns
  /\ sess[conns[name].Session].open

\* C36: a configured downstream without an entry (its connect failed at
\* startup, or the entry was removed after a failed reconnect) that is
\* reachable while the manager is not closed gets a live session in the
\* end, unless it becomes unreachable again, the manager is closed, or
\* the MaxSessions sessions are used up.
C36_RetriedUntilLive ==
  \A name \in ConfigNames(GatewayDownstream) :
    (Missing(name) /\ reachable[name])
      ~> (Live(name) \/ ~reachable[name] \/ cancelled
          \/ Len(sess) = MaxSessions)

\* A downstream whose connect failed at startup has a live session.
C36_Witness ==
  \E i \in 1..Len(newAttempts) :
    /\ newAttempts[i].err # NoErr
    /\ Live(newAttempts[i].name)
    /\ ~cancelled

\* C37: once the context of the liveness loop is cancelled the loop
\* terminates in the end and stays terminated; from the cancellation on no
\* check leaves the select for the range over the downstreams, and a step
\* of the waiting loop makes no ping and no connect and leaves the map and
\* the sessions as they are.
C37_LoopStopsWhenCancelled ==
  /\ cancelled ~> (hcPc = "exited")
  /\ [][cancelled =>
          (/\ hcPc = "wait" =>
                (/\ hcPc' \in {"wait", "exited"}
                 /\ <<hcTodo, hcName, hcConn, hcNew>>'
                      = <<hcTodo, hcName, hcConn, hcNew>>
                 /\ (closePc' = closePc /\ envEvents' = envEvents)
                      => (conns' = conns /\ sess' = sess))
           /\ hcPc = "exited" =>
                (/\ hcPc' = "exited"
                 /\ (closePc' = closePc /\ envEvents' = envEvents)
                      => (conns' = conns /\ sess' = sess)))]_vars

\* The loop has terminated after Close cancelled its context and closed a
\* session.
C37_Witness ==
  /\ cancelled
  /\ hcPc = "exited"
  /\ closeReturned
  /\ \E i \in 1..Len(sess) : sess[i].closedByManager

\* The steps of Gateway.Run in their order.
RunOrder ==
  {<<"load", "new">>, <<"load", "cfgerr">>, <<"new", "ready">>,
   <<"new", "failed">>, <<"ready", "serving">>, <<"ready", "regerr">>,
   <<"failed", "returned">>, <<"serving", "returned">>,
   <<"regerr", "returned">>}

\* C38: Gateway.Run brings up the manager, then discovers and registers,
\* then runs the upstream: discovery and registration act only on a
\* constructed manager and before upstream.Run; upstream.Run starts only
\* after a constructed manager and a successful discovery, with the tools
\* of every server of the snapshot registered, and no tool is registered
\* while it runs; and Run returns after the manager was constructed only
\* when the manager's Close has returned.
C38_RunOrder ==
  [][/\ mainPc' # mainPc => <<mainPc, mainPc'>> \in RunOrder
     /\ (regPc' # regPc \/ registered' # registered
           \/ upstreamTools' # upstreamTools)
          => (mainPc = "ready" /\ hcPc # "none")
     /\ (mainPc' = "serving" /\ mainPc # "serving")
          => (/\ hcPc # "none"
              /\ regPc' = "done"
              /\ regTodo' = {}
              /\ \A name \in DOMAIN regSnap' :
                   /\ name \in DOMAIN advertised'
                   /\ advertised'[name] = catalog[name]
              /\ upstreamTools' = AddTools(EmptyMap, registered'))
     /\ (mainPc' = "returned" /\ mainPc # "returned")
          => IF mainPc = "failed"
             THEN hcPc = "none" /\ conns = EmptyMap /\ ~cancelled
             ELSE closeReturned /\ cancelled /\ closePc = "idle"]_vars

\* Run has returned after it served: the deferred Close has returned.
C38_Witness ==
  /\ mainPc = "returned"
  /\ regPc = "done"
  /\ registered # <<>>
  /\ closeReturned

\* C39: in every state of the manager each key of dm.conns is the name of
\* a configured downstream, and the conn under a key carries that name,
\* the configuration entry of that name and a session, not nil, that
\* connect obtained for that server with the handshake completed; no two
\* keys hold the same session.
C39_MapWellFormed ==
  /\ DOMAIN conns \subseteq ConfigNames(downstream)
  /\ \A k \in DOMAIN conns :
       /\ conns[k] # NoConn
       /\ conns[k].Name = k
       /\ conns[k].Config = cfgByName(downstream)[k]
       /\ conns[k].Session # NilSession
       /\ conns[k].Session \in 1..Len(sess)
       /\ sess[conns[k].Session].handshaken
       /\ sess[conns[k].Session].server = k
  /\ \A k1, k2 \in DOMAIN conns :
       conns[k1].Session = conns[k2].Session => k1 = k2

\* Both downstreams have a conn, one of them installed by a reconnect.
C39_Witness ==
  /\ DOMAIN conns = ConfigNames(downstream)
  /\ Len(sess) > Cardinality(DOMAIN conns)
  /\ hcPc = "wait"
  /\ ~cancelled

\* C40: once Close has returned and the liveness loop has exited, no
\* session that connect established is still open.
C40_NoSessionLeak ==
  (closeReturned /\ closePc = "idle" /\ hcPc = "exited")
    => \A i \in 1..Len(sess) : ~sess[i].open
====
